---- MODULE Spec2Model ----
(***************************************************************************)
(* Model of the 15-minute signal engine of polymarket-bot (apps/bot):      *)
(*   - signal_engine.py   : the per-tick signal composition (_run_tick),   *)
(*                          the tier checks and the last-second gate;      *)
(*   - executor.py / quarter_executor.py / database.py : how an intent is  *)
(*                          handed to execution and written to the ledger; *)
(*   - settlement.py      : the settlement resolver (settle_trades);       *)
(*   - utils/rtds_client.py : the reference price buffer and the           *)
(*                          price-at-timestamp cache.                      *)
(*                                                                         *)
(* Units.  Prices of outcome tokens are in cents (0.40 -> 40), dollar      *)
(* amounts in cents (10.0 -> 1000), fractions of the reference price in    *)
(* per mille (0.002 -> 2), the imbalance in hundredths (0.5 -> 50), wall   *)
(* clock time in seconds and tick timestamps in milliseconds.              *)
(*                                                                         *)
(* An Optional[...] value of the source is a sequence of length 0 (None)   *)
(* or 1 (the value).                                                       *)
(***************************************************************************)
EXTENDS Integers, Sequences, FiniteSets, TLC

VARIABLES
  gate,                \* one call of _last_second_gate: its arguments and its result
  tick,                \* the last call of _run_tick: what it read and what it emitted
  tick_count,          \* run_loop: number of completed ticks
  _imbalance_history,  \* signal_engine._imbalance_history (deque, maxlen 60)
  CONVEX_URL,          \* config.CONVEX_URL: TRUE when the ledger endpoint is configured
  trades,              \* ledger table "trades" (a document's _id is its index)
  market_outcomes,     \* ledger table "market_outcomes" (the SettlementRecords)
  handed,              \* history: the intents handed to execute_trade, in order
  settle,              \* the settle_trades run in progress (its locals), or idle
  settle_5m,           \* the same for the run of the 5-minute bot's process (main.py)
  settle_runs,         \* number of settle_trades runs started (the clock of now_ms)
  settle_calls,        \* history: per trade, the update_trade_settlement calls
  dropped,             \* ids of the venue notifications acknowledged so far
  now_sec,             \* the clock, int(time.time())
  _latest,             \* rtds_client._latest["btc/usd"]
  _buffers,            \* rtds_client._buffers["btc/usd"]: (ts_ms, value), sorted
  _start_price_caches, \* rtds_client._start_price_caches["btc/usd"]
  ingested,            \* number of price messages taken in
  price_first,         \* history: per timestamp, the first value returned
  price_last,          \* history: the last _price_at_timestamp call
  newest,              \* history: the stamped tick with the greatest timestamp
  pnl,                 \* the last calculate_trade_pnl call and its result
  _books,              \* ws_polymarket._books: asset id -> TokenBook, or None
  _stale,              \* ws_polymarket._stale
  _subscribed_ids,     \* ws_polymarket._subscribed_ids
  book_clock,          \* time.time() of the order book stream, in events
  patched,             \* history: books a price_change wrote since their levels
  book_conn,           \* "idle": no worker; "closed": no connection; "open"
  fill_threads,        \* ids each _fill_books_from_rest thread has yet to fetch
  book_last,           \* history: the last call or callback of ws_polymarket
  client,              \* the streaming client whose reconnect loop is followed
  conn_pc,             \* "connecting": run_forever is trying; "open": it opened
  delay,               \* the loop's delay (_reconnect_delay in ws_polymarket)
  waits,               \* number of time.sleep(delay) of the loop so far
  last_wait,           \* history: the last sleep, and the attempt before it
  main_pc,             \* where main_15min.main and run_loop stand
  _stop_event,         \* signal_engine._stop_event
  signalled,           \* history: a signal has reached request_shutdown
  loop_tick_count,     \* run_loop's tick_count, counted up to the next settle
  loop_last,           \* history: what the last iteration of run_loop raised
  stopped_clients,     \* history: the streaming clients main has stopped
  w_pc,                \* where the worker thread of a streaming client stands
  _stop,               \* the client's _stop event
  _ws,                 \* the client's _ws: the app it refers to, or None
  conn_open,           \* the app whose connection is open, or None
  closed_apps,         \* apps stop() has closed
  stop_pc,             \* where a call of stop() stands
  start_pc,            \* where the call of start() made after stop() stands
  rounds,              \* number of apps the worker has created
  sizing,              \* the last calculate_position_size call and its result
  rest_held,           \* per requester, the REST snapshot fetched and not yet stored
  streamed,            \* history: per asset, the time of the last book event received
  ws_sent,             \* the ids named by the subscription sent on the open connection
  _latest_btc_usd,     \* ws_rtds: the value of the last BTC tick, or None
  _latest_ts_ms,       \* ws_rtds: the stamp of the last BTC tick, or None
  _buffer,             \* ws_rtds: the ticks kept, [t, v], sorted by t
  engine_read          \* history: the last reads of the 15-minute engine

gateVars == <<gate>>
engineVars == <<tick, tick_count, _imbalance_history>>
ledgerVars == <<CONVEX_URL, trades, market_outcomes, handed>>
settleVars == <<settle, settle_5m, settle_runs, settle_calls, dropped>>
rtdsVars == <<now_sec, _latest, _buffers, _start_price_caches, ingested,
              price_first, price_last, newest>>
pnlVars == <<pnl>>
bookVars == <<_books, _stale, _subscribed_ids, book_clock, patched,
              book_conn, fill_threads, book_last>>
connVars == <<client, conn_pc, delay, waits, last_wait>>
stopVars == <<main_pc, _stop_event, signalled, loop_tick_count, loop_last,
              stopped_clients>>
workerVars == <<w_pc, _stop, _ws, conn_open, closed_apps, stop_pc, start_pc, rounds>>
sizeVars == <<sizing>>
feedVars == <<_latest_btc_usd, _latest_ts_ms, _buffer, engine_read>>
crossVars == <<rest_held, streamed, ws_sent, feedVars>>
ctlVars == <<stopVars, workerVars, sizeVars, crossVars>>
otherVars == <<pnlVars, bookVars, connVars, ctlVars>>
vars == <<gate, tick, tick_count, _imbalance_history,
          CONVEX_URL, trades, market_outcomes, handed,
          settle, settle_5m, settle_runs, settle_calls, dropped,
          now_sec, _latest, _buffers, _start_price_caches, ingested,
          price_first, price_last, newest,
          pnl, _books, _stale, _subscribed_ids, book_clock, patched,
          book_conn, fill_threads, book_last,
          client, conn_pc, delay, waits, last_wait,
          main_pc, _stop_event, signalled, loop_tick_count, loop_last,
          stopped_clients,
          w_pc, _stop, _ws, conn_open, closed_apps, stop_pc, start_pc, rounds,
          sizing, rest_held, streamed, ws_sent,
          _latest_btc_usd, _latest_ts_ms, _buffer, engine_read>>

\* ---------------------------------------------------------------- Optional

None == <<>>
Some(v) == <<v>>
IsNone(x) == x = <<>>
IsSome(x) == x /= <<>>
Val(x) == x[1]
Abs(n) == IF n < 0 THEN -n ELSE n
Min(a, b) == IF a <= b THEN a ELSE b

RECURSIVE Pow2(_)
Pow2(n) == IF n <= 0 THEN 1 ELSE 2 * Pow2(n - 1)

RECURSIVE SumSeq(_)
SumSeq(s) == IF s = <<>> THEN 0 ELSE Head(s) + SumSeq(Tail(s))

\* --------------------------------------------------------------- constants

_IMBALANCE_SAMPLES == 60
_FAIR_VALUE_UNDER == 45
_LAST_SECOND_START == 40
_LAST_SECOND_END == 25
_STRIKE_NEAR_PCT == 2
_BTC_MOVE_PCT == 3
MAX_POSITION_SIZE == 1000
\* Imported from src.config by signal_engine.py but not defined in the
\* config.py of this snapshot: values taken from the design document
\* (total-cost threshold 0.98) and from the docstring of _check_p4_momentum.
MISPRICING_THRESHOLD == 98
IMBALANCE_THRESHOLD == 30
MOMENTUM_LOOKBACK == 3
\* Imported at signal_engine.py 21 and not set in config.py either; the value
\* is that of config.LATE_ENTRY_WINDOW_SEC (seconds).  No line of
\* signal_engine.py reads it.
LAST_SECOND_WINDOW == 240

\* ------------------------------------------------------- _last_second_gate

\* get_btc_move_60s() is read inside the gate; its value is the argument move.
GateInBand(seconds_left) ==
  ~(seconds_left > _LAST_SECOND_START \/ seconds_left < _LAST_SECOND_END)

NearStrike(btc_spot, strike_price) ==
  Abs(btc_spot - strike_price) * 1000 <= _STRIKE_NEAR_PCT * strike_price

\* A move test that forgets the size of the move.
AnyMoveQualifies(move, market_repriced) ==
  IsSome(move) /\ ~market_repriced

\* signal_engine.py 163-165
MoveQualifies(move, market_repriced) ==
  IsSome(move) /\ Abs(Val(move)) >= _BTC_MOVE_PCT /\ ~market_repriced

\* A gate whose band leaves out its upper end (>= for >).
GateBandOpenAtStart(seconds_left, btc_spot, strike_price, market_repriced, move) ==
  IF seconds_left >= _LAST_SECOND_START \/ seconds_left < _LAST_SECOND_END THEN TRUE
  ELSE IF IsNone(btc_spot) \/ IsNone(strike_price) THEN FALSE
  ELSE IF Val(strike_price) <= 0 THEN FALSE
  ELSE IF NearStrike(Val(btc_spot), Val(strike_price)) THEN TRUE
  ELSE IF MoveQualifies(move, market_repriced) THEN TRUE
  ELSE FALSE

\* signal_engine.py 145-166
_last_second_gate(seconds_left, btc_spot, strike_price, market_repriced, move) ==
  IF ~GateInBand(seconds_left) THEN TRUE
  ELSE IF IsNone(btc_spot) \/ IsNone(strike_price) THEN FALSE
  ELSE IF Val(strike_price) <= 0 THEN FALSE
  ELSE IF NearStrike(Val(btc_spot), Val(strike_price)) THEN TRUE
  ELSE IF MoveQualifies(move, market_repriced) THEN TRUE
  ELSE FALSE

\* Inputs of the gate specification.
GateSeconds == {24, 25, 35, 40, 41, 50}
GateSpots == {None, Some(1000), Some(1002), Some(1003), Some(1010)}
GateStrikes == {None, Some(0), Some(1000)}
GateMoves == {None, Some(2), Some(3), Some(-3), Some(-2)}

GateInit ==
  gate \in [seconds_left : GateSeconds, btc_spot : GateSpots,
            strike_price : GateStrikes, market_repriced : BOOLEAN,
            move : GateMoves, result : {None}]

GateIdle ==
  gate = [seconds_left |-> 50, btc_spot |-> None, strike_price |-> None,
          market_repriced |-> FALSE, move |-> None, result |-> None]

GateCall ==
  /\ IsNone(gate.result)
  /\ gate' = [gate EXCEPT !.result =
       Some(_last_second_gate(gate.seconds_left, gate.btc_spot,
                              gate.strike_price, gate.market_repriced, gate.move))]
  /\ UNCHANGED <<otherVars, engineVars, ledgerVars, settleVars, rtdsVars>>

\* ------------------------------------------------------------ signal tiers

_position_size(confidence_layers) ==
  IF confidence_layers <= 0 THEN 0
  ELSE (Min(100, 25 * Pow2(confidence_layers - 1)) * MAX_POSITION_SIZE) \div 100

SignalResult(action, signal_type, price, yes_price, no_price) ==
  [fired |-> TRUE, action |-> action, signal_type |-> signal_type,
   confidence_layers |-> 3, price |-> price,
   yes_price |-> yes_price, no_price |-> no_price]

\* A P1 check that misses the branch of the cheap NO side.
P1WithoutNoSide(yes_ask, no_ask, stale) ==
  IF stale \/ IsNone(yes_ask) \/ IsNone(no_ask) THEN None
  ELSE IF Val(yes_ask) + Val(no_ask) < MISPRICING_THRESHOLD
    THEN Some(SignalResult("bet_both", <<"mispricing_arb">>, None, yes_ask, no_ask))
  ELSE IF Val(yes_ask) < _FAIR_VALUE_UNDER
    THEN Some(SignalResult("bet_yes", <<"mispricing_one_sided">>, yes_ask, None, None))
  ELSE None

\* signal_engine.py 66-103
_check_p1_mispricing(yes_ask, no_ask, stale) ==
  IF stale \/ IsNone(yes_ask) \/ IsNone(no_ask) THEN None
  ELSE IF Val(yes_ask) + Val(no_ask) < MISPRICING_THRESHOLD
    THEN Some(SignalResult("bet_both", <<"mispricing_arb">>, None, yes_ask, no_ask))
  ELSE IF Val(yes_ask) < _FAIR_VALUE_UNDER
    THEN Some(SignalResult("bet_yes", <<"mispricing_one_sided">>, yes_ask, None, None))
  ELSE IF Val(no_ask) < _FAIR_VALUE_UNDER
    THEN Some(SignalResult("bet_no", <<"mispricing_one_sided">>, no_ask, None, None))
  ELSE None

Flip(direction) == IF direction = "YES" THEN "NO" ELSE "YES"

\* signals: sequence of WhaleSignal [direction, opposite]; the last one counts.
_check_p2_whale(signals) ==
  IF signals = <<>> THEN None
  ELSE LET sig == signals[Len(signals)]
       IN  Some(IF sig.opposite THEN Flip(sig.direction) ELSE sig.direction)

\* imbalance_avg is the fraction num/den (den > 0), in hundredths.
_check_p3_imbalance(imbalance_avg) ==
  IF imbalance_avg.num > IMBALANCE_THRESHOLD * imbalance_avg.den THEN Some("YES")
  ELSE IF imbalance_avg.num < (-IMBALANCE_THRESHOLD) * imbalance_avg.den THEN Some("NO")
  ELSE None

\* outcomes: what list_last_5m_outcomes(limit = MOMENTUM_LOOKBACK) returned.
_check_p4_momentum(outcomes) ==
  IF Len(outcomes) < MOMENTUM_LOOKBACK THEN None
  ELSE LET first == outcomes[1]
       IN  IF first = "" THEN None
           ELSE IF \A i \in 1..MOMENTUM_LOOKBACK : outcomes[i] = first
             THEN Some(first)
           ELSE None

\* signal_engine.py 183-190: the sample of this tick and the rolling history.
Imbalance(bid_vol, ask_vol) ==
  IF bid_vol + ask_vol > 0
    THEN IF bid_vol >= ask_vol
           THEN ((bid_vol - ask_vol) * 100) \div (bid_vol + ask_vol)
           ELSE -(((ask_vol - bid_vol) * 100) \div (bid_vol + ask_vol))
    ELSE 0

DequeAppend(history, x) ==
  LET h == Append(history, x)
  IN  IF Len(h) > _IMBALANCE_SAMPLES THEN Tail(h) ELSE h

ImbalanceAvg(history) == [num |-> SumSeq(history), den |-> Len(history)]

\* signal_engine.py 224-258: the combination of P2, P3 and P4.
Combo(direction, layers, parts) ==
  [direction |-> direction, layers |-> layers, parts |-> parts]

CombineP2(c, p2) ==
  IF IsNone(p2) THEN c
  ELSE IF IsNone(c.direction) THEN Combo(p2, c.layers + 1, Append(c.parts, "whale"))
  ELSE IF c.direction = p2 THEN Combo(c.direction, c.layers + 1, Append(c.parts, "whale"))
  ELSE Combo(None, 0, c.parts)

\* A combination that keeps its direction and count when a tier disagrees.
CombineTierNoReset(c, dir, name) ==
  IF IsSome(dir) /\ (IsNone(c.direction) \/ c.direction = dir)
    THEN Combo(dir, c.layers + 1, Append(c.parts, name))
  ELSE c

\* signal_engine.py 237-258: P3, then P4, joins the combination.
CombineTier(c, dir, name) ==
  IF IsSome(dir) /\ (IsNone(c.direction) \/ c.direction = dir)
    THEN Combo(dir, c.layers + 1, Append(c.parts, name))
  ELSE IF IsSome(dir) /\ c.direction /= dir
    THEN Combo(None, 0, c.parts)
  ELSE c

Combine(p2, p3_dir, p4_dir) ==
  CombineTier(CombineTier(CombineP2(Combo(None, 0, <<>>), p2),
                          p3_dir, "imbalance"),
              p4_dir, "momentum")

\* ------------------------------------------------------------------ ledger
\* database.py talks to a Convex deployment whose functions (trades:insert,
\* trades:hasOpenForMarket, trades:listUnsettled, trades:updateSettlement,
\* marketOutcomes:getBySlug, marketOutcomes:insert) are not part of the
\* sources at hand.  They are modelled as plain operations on two tables.
\* A trade is unsettled while it has no market outcome.

Unsettled(t) == IsNone(t.market_outcome)

LedgerHasOpenForMarket(slug) ==
  \E i \in DOMAIN trades : trades[i].market_ticker = slug /\ Unsettled(trades[i])

LedgerInsertTrade(payload) ==
  Append(trades, [payload EXCEPT !.market_outcome = None,
                                 !.actual_profit = None,
                                 !.settled_at = None])

NoCalls == [applied |-> 0, late |-> 0]

\* database.py 137-147.  ok: the query went through (client available, no
\* exception).
has_open_trade_for_market(slug, ok) ==
  IF slug = "" THEN FALSE
  ELSE IF ~CONVEX_URL THEN FALSE
  ELSE IF ~ok THEN FALSE
  ELSE LedgerHasOpenForMarket(slug)

\* database.py 60-81 (the text fields, expected_profit, confidence and
\* executed_at of the payload are left out).
_trade_to_convex_payload(data) ==
  [market_ticker |-> IF data.market_ticker = "" THEN "unknown" ELSE data.market_ticker,
   condition_id |-> data.condition_id,
   action |-> data.action, side |-> data.side,
   price |-> data.price, yes_price |-> data.yes_price, no_price |-> data.no_price,
   position_size |-> data.position_size, size |-> data.size,
   status |-> IF data.status = "" THEN "paper" ELSE data.status,
   market_outcome |-> None, actual_profit |-> None, settled_at |-> None]

\* database.py 150-163: [saved, trades] after log_trade(trade_data).
log_trade(trade_data, ok) ==
  IF ~CONVEX_URL \/ ~ok
    THEN [saved |-> FALSE, trades |-> trades]
    ELSE [saved |-> TRUE,
          trades |-> LedgerInsertTrade(_trade_to_convex_payload(trade_data))]

\* executor.py 7-87 with PAPER_MODE = True: the trade_data built from the
\* signal, then log_trade; execute_trade returns True whatever log_trade says.
PaperTradeData(market, signal) ==
  IF signal.action = "bet_both"
    THEN [market_ticker |-> market.slug, condition_id |-> market.condition_id,
          action |-> "ARBITRAGE", side |-> "ARBITRAGE", price |-> None,
          yes_price |-> signal.yes_price, no_price |-> signal.no_price,
          position_size |-> signal.size, size |-> signal.size, status |-> "paper"]
    ELSE LET side == IF signal.action = "bet_yes" THEN "YES" ELSE "NO"
         IN  [market_ticker |-> market.slug, condition_id |-> market.condition_id,
              action |-> side, side |-> side, price |-> signal.price,
              yes_price |-> Some(market.yes_price), no_price |-> Some(market.no_price),
              position_size |-> signal.size, size |-> signal.size, status |-> "paper"]

execute_trade(market, signal, ok) ==
  LET logged == log_trade(PaperTradeData(market, signal), ok)
  IN  [returned |-> TRUE, saved |-> logged.saved, trades |-> logged.trades]

\* --------------------------------------------------------------- _run_tick

Or(a, b) == IF IsSome(a) THEN a ELSE b

\* signal_engine.py 194-217: the signal of a P1 hit.
P1Signal(market, p1) ==
  LET size == _position_size(p1.confidence_layers)
  IN  [action |-> p1.action,
       price |-> Or(p1.price, IF p1.action = "bet_yes" THEN Some(market.yes_price)
                                                      ELSE Some(market.no_price)),
       yes_price |-> Or(p1.yes_price, Some(market.yes_price)),
       no_price |-> Or(p1.no_price, Some(market.no_price)),
       size |-> size,
       expected_profit |-> IF p1.action = "bet_both" THEN (size * 3) \div 100
                                                     ELSE size \div 2,
       confidence |-> 95,
       signal_type |-> p1.signal_type,
       confidence_layers |-> p1.confidence_layers]

\* signal_engine.py 280-302: the signal of a combined entry.
CombinedSignal(market, c) ==
  LET size == _position_size(c.layers)
  IN  [action |-> IF c.direction = Some("YES") THEN "bet_yes" ELSE "bet_no",
       price |-> IF c.direction = Some("YES") THEN Some(market.yes_price)
                                              ELSE Some(market.no_price),
       yes_price |-> None, no_price |-> None,
       size |-> size,
       expected_profit |-> size \div 2,
       confidence |-> 70 + c.layers * 10,
       signal_type |-> IF c.parts /= <<>> THEN c.parts ELSE <<"combined">>,
       confidence_layers |-> c.layers]

TickOut(kind, signal, p4_queried, history) ==
  [kind |-> kind, signal |-> signal, p4_queried |-> p4_queried, history |-> history]

\* What one call of _run_tick decides, from the market and from what it reads
\* (env): kind is the branch taken, signal the intent handed to
\* execute_signal_engine_trade (None when the tick returns without one),
\* p4_queried whether list_last_5m_outcomes was called, history the deque
\* after the tick.
_run_tick(market, env) ==
  IF IsNone(market) THEN TickOut("no_market", None, FALSE, _imbalance_history)
  ELSE IF has_open_trade_for_market(Val(market).slug, env.open_query_ok)
    THEN TickOut("open", None, FALSE, _imbalance_history)
  ELSE
    LET m == Val(market)
        history == DequeAppend(_imbalance_history, Imbalance(env.bid_vol, env.ask_vol))
        p1 == _check_p1_mispricing(env.yes_ask, env.no_ask, env.ob_stale)
    IN  IF IsSome(p1) /\ Val(p1).fired
          THEN TickOut("p1", Some(P1Signal(m, Val(p1))), FALSE, history)
        ELSE
          LET p2 == _check_p2_whale(env.whale_signals)
              p3_dir == _check_p3_imbalance(ImbalanceAvg(history))
              p4_dir == _check_p4_momentum(env.outcomes_5m)
              c == Combine(p2, p3_dir, p4_dir)
              strike_price == IF IsSome(m.window_start_ts) THEN env.price_at_start
                                                           ELSE None
          IN  IF IsNone(c.direction) \/ c.layers < 2
                THEN TickOut("no_combined", None, TRUE, history)
              ELSE IF ~_last_second_gate(m.seconds_left, env.btc_spot, strike_price,
                                         FALSE, env.move)
                THEN TickOut("gate_blocked", None, TRUE, history)
              ELSE TickOut("composite", Some(CombinedSignal(m, c)), TRUE, history)

\* One iteration of run_loop's tick (signal_engine.py 346-347): _run_tick with
\* the market the directory returned and the state of the streams as read,
\* and, when it emits, the hand-over to execute_trade and the ledger write.
RunTick(markets, envs, max_ticks) ==
  /\ tick_count < max_ticks
  /\ settle.pc = "idle"
  /\ \E market \in markets, env \in envs :
       LET out == _run_tick(market, env)
       IN  /\ tick' = [market |-> market, env |-> env, kind |-> out.kind,
                       signal |-> out.signal, p4_queried |-> out.p4_queried]
           /\ _imbalance_history' = out.history
           /\ tick_count' = tick_count + 1
           /\ IF IsSome(out.signal)
                THEN LET ex == execute_trade(Val(market), Val(out.signal), env.log_ok)
                     IN  /\ trades' = ex.trades
                         /\ handed' = Append(handed,
                              [slug |-> Val(market).slug,
                               trade_id |-> IF ex.saved THEN Some(Len(ex.trades))
                                                        ELSE None])
                         /\ settle_calls' =
                              IF ex.saved THEN Append(settle_calls, NoCalls)
                                          ELSE settle_calls
                ELSE UNCHANGED <<trades, handed, settle_calls>>
           /\ UNCHANGED <<otherVars, CONVEX_URL, market_outcomes, settle, settle_5m, settle_runs,
                          dropped,
                          gateVars, rtdsVars>>

\* ---------------------------------------------------- initial conditions

Slugs == {"btc-updown-15m-900", "btc-updown-15m-1800"}

ConditionId(slug) == IF slug = "btc-updown-15m-900" THEN "0xc900" ELSE "0xc1800"

\* A market dict as scanner_15min._fetch_one_market builds it (149-169).
Market(slug, seconds_left) ==
  [slug |-> slug, condition_id |-> ConditionId(slug),
   yes_price |-> 50, no_price |-> 50, seconds_left |-> seconds_left,
   window_start_ts |-> Some(900)]

NoTick ==
  [market |-> None, env |-> None, kind |-> "init", signal |-> None,
   p4_queried |-> FALSE]

EngineIdle ==
  /\ tick = NoTick
  /\ tick_count = 0
  /\ _imbalance_history = <<>>

SettleIdle ==
  [pc |-> "idle", unsettled |-> <<>>, clob_resolved |-> <<>>,
   notif_ids_to_drop |-> <<>>, pending |-> {}, settled_any |-> FALSE,
   now_ms |-> 0, last |-> None]

LedgerEmpty ==
  /\ trades = <<>>
  /\ market_outcomes = <<>>
  /\ handed = <<>>
  /\ settle = SettleIdle
  /\ settle_5m = SettleIdle
  /\ settle_runs = 0
  /\ settle_calls = <<>>
  /\ dropped = {}

\* Timestamps _price_at_timestamp is asked about: a window start, a later
\* window start, and 0 (no timestamp).
QueryTimestamps == {0, 1000, 2800}

RtdsIdle ==
  /\ now_sec = 1000
  /\ _latest = None
  /\ _buffers = <<>>
  /\ _start_price_caches = <<>>
  /\ ingested = 0
  /\ price_first = [ts \in QueryTimestamps |-> None]
  /\ price_last = None
  /\ newest = None

\* Token ids of the two markets' outcome tokens.
AssetIds == {"up-900", "down-900", "up-1800", "down-1800"}

\* The last call or callback of the order book client: its kind, the ids
\* start() was given, the assets that had a book before it, whether the
\* message was dropped at a parse error, whether the calling thread made a
\* network request, and what get_imbalance_data returned.
BookLast(kind, ids, had, dropped_at_error, network, result) ==
  [kind |-> kind, ids |-> ids, had |-> had, dropped |-> dropped_at_error,
   network |-> network, result |-> result]

BookStep(kind) == BookLast(kind, <<>>, {}, FALSE, FALSE, <<>>)

\* ws_polymarket.py 76-81: no book, stale, nothing subscribed, no worker.
BookIdle ==
  /\ _books = [a \in AssetIds |-> None]
  /\ _stale = TRUE
  /\ _subscribed_ids = <<>>
  /\ book_clock = 0
  /\ patched = {}
  /\ book_conn = "idle"
  /\ fill_threads = <<>>
  /\ book_last = BookStep("none")

\* Seconds are counted in 64ths, which holds every value 5 * 1.5^k below
\* the ceiling exactly.
_RECONNECT_DELAY == 320
_MAX_RECONNECT_DELAY == 3840
_RATE_LIMIT_BACKOFF_SEC == 3840

\* The three streaming clients; they share no state.
Clients == {"rtds_client", "ws_rtds", "ws_polymarket"}

\* rtds_client.py 112, ws_rtds.py 101, ws_polymarket.py 29: the loop has
\* just been started.
ConnStarted ==
  /\ conn_pc = "connecting"
  /\ delay = _RECONNECT_DELAY
  /\ waits = 0
  /\ last_wait = None

ConnIdle ==
  /\ client = "rtds_client"
  /\ ConnStarted

\* main_15min.py 18-51: main has started the streams and is about to
\* install its signal handlers; signal_engine.py 33: the event is clear.
StopIdle ==
  /\ main_pc = "boot"
  /\ _stop_event = FALSE
  /\ signalled = FALSE
  /\ loop_tick_count = 0
  /\ loop_last = None
  /\ stopped_clients = {}

\* rtds_client.py 139-147 (ws_rtds.py 127-135, ws_polymarket.py 290-295):
\* start() has cleared _stop and started the worker, which stands at the
\* test of its loop.
WorkerIdle ==
  /\ w_pc = "check"
  /\ _stop = FALSE
  /\ _ws = None
  /\ conn_open = None
  /\ closed_apps = {}
  /\ stop_pc = "idle"
  /\ start_pc = "idle"
  /\ rounds = 0

\* calculate_position_size has not been called.
SizeIdle == sizing = None

\* The REST requesters of ws_polymarket: the thread _on_open starts and a
\* caller of get_best_asks.
Requesters == {"fill", "on_demand"}

\* No REST request is under way, no book event was received, no
\* subscription was sent.
\* ws_rtds.py 29-31: the module state of ws_rtds at import; no read made.
FeedIdle ==
  /\ _latest_btc_usd = None
  /\ _latest_ts_ms = None
  /\ _buffer = <<>>
  /\ engine_read = None

CrossIdle ==
  /\ rest_held = [r \in Requesters |-> None]
  /\ streamed = [a \in AssetIds |-> None]
  /\ ws_sent = <<>>
  /\ FeedIdle

OtherIdle ==
  /\ pnl = None
  /\ BookIdle
  /\ ConnIdle
  /\ StopIdle
  /\ WorkerIdle
  /\ SizeIdle
  /\ CrossIdle

\* ------------------------------------------- specification of the gate

GateNext == GateCall

InitGate ==
  /\ GateInit
  /\ EngineIdle
  /\ CONVEX_URL = TRUE
  /\ LedgerEmpty
  /\ RtdsIdle
  /\ OtherIdle

SpecGate == InitGate /\ [][GateNext]_vars

\* ------------------------------------------ specification of one tick
\* Every combination of what one tick can read, from a ledger that holds no
\* trade or one open trade on the market, and from an imbalance history that
\* is empty, short or full.

TickAsks ==
  {<<None, Some(40)>>, <<Some(60), None>>, <<Some(40), Some(40)>>,
   <<Some(40), Some(60)>>, <<Some(60), Some(40)>>, <<Some(60), Some(60)>>,
   <<Some(49), Some(49)>>}
TickVols == {<<0, 0>>, <<3, 1>>, <<1, 3>>}
TickWhales ==
  {<<>>, <<[direction |-> "YES", opposite |-> FALSE]>>,
   <<[direction |-> "NO", opposite |-> FALSE],
     [direction |-> "YES", opposite |-> TRUE]>>}
TickOutcomes ==
  {<<"YES", "YES", "YES">>, <<"NO", "NO", "NO">>, <<"YES", "NO", "YES">>,
   <<"YES", "YES">>}
\* <<btc_spot, get_btc_at_timestamp(window_start_ts), get_btc_move_60s()>>
TickRefs ==
  {<<Some(1002), Some(1000), None>>, <<Some(1010), Some(1000), Some(2)>>,
   <<Some(1010), Some(1000), Some(-3)>>, <<Some(1010), None, Some(-3)>>,
   <<None, Some(1000), Some(3)>>}
TickSeconds == {35, 50, 300}
TickHistories == {<<>>, <<-50, -50>>, [i \in 1.._IMBALANCE_SAMPLES |-> 50]}

Env(open_query_ok, log_ok, asks, stale, vols, whales, outcomes, refs) ==
  [open_query_ok |-> open_query_ok, log_ok |-> log_ok,
   yes_ask |-> asks[1], no_ask |-> asks[2], ob_stale |-> stale,
   bid_vol |-> vols[1], ask_vol |-> vols[2],
   whale_signals |-> whales, outcomes_5m |-> outcomes,
   btc_spot |-> refs[1], price_at_start |-> refs[2], move |-> refs[3]]

TickEnvs ==
  {Env(q, l, a, st, v, w, o, r) :
     q \in BOOLEAN, l \in BOOLEAN, a \in TickAsks, st \in BOOLEAN,
     v \in TickVols, w \in TickWhales, o \in TickOutcomes, r \in TickRefs}

TickMarkets ==
  {None} \cup {Some(Market("btc-updown-15m-900", s)) : s \in TickSeconds}

OpenTrade(slug) ==
  [market_ticker |-> slug, condition_id |-> ConditionId(slug),
   action |-> "YES", side |-> "YES", price |-> Some(50),
   yes_price |-> Some(50), no_price |-> Some(50),
   position_size |-> 500, size |-> 500, status |-> "paper",
   market_outcome |-> None, actual_profit |-> None, settled_at |-> None]

InitTick ==
  /\ GateIdle
  /\ tick = NoTick
  /\ tick_count = 0
  /\ _imbalance_history \in TickHistories
  /\ CONVEX_URL = TRUE
  /\ market_outcomes = <<>>
  /\ settle = SettleIdle
  /\ settle_5m = SettleIdle
  /\ settle_runs = 0
  /\ dropped = {}
  /\ RtdsIdle
  /\ OtherIdle
  /\ \/ trades = <<>> /\ handed = <<>> /\ settle_calls = <<>>
     \/ /\ trades = <<OpenTrade("btc-updown-15m-900")>>
        /\ handed = <<[slug |-> "btc-updown-15m-900", trade_id |-> Some(1)]>>
        /\ settle_calls = <<NoCalls>>

TickOnce == RunTick(TickMarkets, TickEnvs, 1)

TickNext == TickOnce

SpecTick == InitTick /\ [][TickNext]_vars

\* -------------------------------------------------------------- settlement

\* The Convex functions behind database.py 168-220, on the two tables.
LedgerListUnsettled ==
  LET ids == {i \in DOMAIN trades : Unsettled(trades[i])}
      F[i \in 0..Len(trades)] ==
        IF i = 0 THEN <<>>
        ELSE IF i \in ids THEN Append(F[i - 1], [id |-> i, doc |-> trades[i]])
        ELSE F[i - 1]
  IN  F[Len(trades)]

LedgerGetOutcomeBySlug(slug) ==
  IF \E i \in DOMAIN market_outcomes : market_outcomes[i].slug = slug
    THEN Some(market_outcomes[
           CHOOSE i \in DOMAIN market_outcomes :
             /\ market_outcomes[i].slug = slug
             /\ \A j \in 1..(i - 1) : market_outcomes[j].slug /= slug])
    ELSE None

LedgerInsertOutcome(record) == Append(market_outcomes, record)

LedgerUpdateSettlement(tr, trade_id, market_outcome, actual_profit, status, settled_at) ==
  [tr EXCEPT ![trade_id] = [@ EXCEPT !.market_outcome = Some(market_outcome),
                                     !.actual_profit = Some(actual_profit),
                                     !.status = status,
                                     !.settled_at = Some(settled_at)]]

\* database.py 90-92
is_db_configured == CONVEX_URL

\* database.py 168-176
list_unsettled_trades(ok) ==
  IF ~CONVEX_URL \/ ~ok THEN <<>> ELSE LedgerListUnsettled

\* database.py 179-187
get_market_outcome_by_slug(slug, ok) ==
  IF ~CONVEX_URL \/ ~ok THEN None ELSE LedgerGetOutcomeBySlug(slug)

\* database.py 190-203: the outcome table after the call.
insert_market_outcome(slug, condition_id, outcome, resolved_at_ms, ok) ==
  IF ~CONVEX_URL \/ ~ok
    THEN market_outcomes
    ELSE LedgerInsertOutcome([slug |-> slug, condition_id |-> condition_id,
                              outcome |-> outcome, resolved_at |-> resolved_at_ms])

\* database.py 206-220: the trade table tr after the call.
update_trade_settlement(tr, trade_id, market_outcome, actual_profit, status, settled_at_ms, ok) ==
  IF ~CONVEX_URL \/ ~ok
    THEN tr
    ELSE LedgerUpdateSettlement(tr, trade_id, market_outcome, actual_profit,
                                status, settled_at_ms)

\* str.upper() on the outcome texts a notification carries.
Upper(text) ==
  CASE text = "Yes" -> "YES"
    [] text = "Up" -> "UP"
    [] text = "No" -> "NO"
    [] text = "Down" -> "DOWN"
    [] OTHER -> text

\* settlement.py 197
NotifOutcome(outcome_raw) ==
  IF Upper(outcome_raw) \in {"YES", "1", "UP"} THEN "YES" ELSE "NO"

\* dict assignment resolved[cond] = outcome
Put(dict, key, value) ==
  [k \in (DOMAIN dict) \cup {key} |-> IF k = key THEN value ELSE dict[k]]

\* settlement.py 185-202: the loop over the notifications.
RECURSIVE ResolveNotifs(_, _)
ResolveNotifs(notifs, acc) ==
  IF notifs = <<>> THEN acc
  ELSE LET n == Head(notifs)
           skipped == n.type /= 4 \/ n.condition_id = "" \/ n.outcome = ""
           next == IF skipped THEN acc
                   ELSE [resolved |-> Put(acc.resolved, n.condition_id,
                                          NotifOutcome(n.outcome)),
                         to_drop |-> IF IsSome(n.id)
                                       THEN Append(acc.to_drop, Val(n.id))
                                       ELSE acc.to_drop]
       IN  ResolveNotifs(Tail(notifs), next)

\* settlement.py 174-202.  notifs is None when get_notifications raised.
_resolve_from_clob_notifications(notifs) ==
  IF IsNone(notifs)
    THEN [resolved |-> <<>>, to_drop |-> <<>>]
    ELSE ResolveNotifs(Val(notifs), [resolved |-> <<>>, to_drop |-> <<>>])

\* A profit that pays the stake back on a win, whatever the price.
PnlEvenMoney(trade, market_outcome) ==
  LET size == IF trade.position_size /= 0 THEN trade.position_size ELSE trade.size
      bet_side == IF trade.side /= "" THEN trade.side ELSE trade.action
  IN  IF size <= 0 THEN 0
      ELSE IF bet_side \in {"YES", "NO"}
        THEN IF market_outcome = bet_side THEN size ELSE 0 - size
      ELSE 0

\* settlement.py 262-300, in cents; a missing or zero price counts as 0.5.
calculate_trade_pnl(trade, market_outcome) ==
  LET size == IF trade.position_size /= 0 THEN trade.position_size ELSE trade.size
      bet_side == IF trade.side /= "" THEN trade.side ELSE trade.action
      price == IF IsSome(trade.price) /\ Val(trade.price) /= 0
                 THEN Val(trade.price) ELSE 50
  IN  IF size <= 0 THEN 0
      ELSE IF bet_side = "ARBITRAGE" THEN 0
      ELSE IF bet_side \in {"YES", "NO"}
        THEN IF market_outcome = bet_side
               THEN IF price <= 0 THEN 0 ELSE (size * 100) \div price - size
               ELSE 0 - size
      ELSE 0

\* settlement.py 320
SlugsOf(unsettled) ==
  {unsettled[i].doc.market_ticker : i \in DOMAIN unsettled}
    \ {"", "unknown"}

\* A loop over the slug's trades that forgets the market_ticker filter.
TradesOfAnySlug(unsettled, slug) == unsettled

\* settlement.py 323 and 349: the trades of the snapshot with this ticker.
TradesOfSlug(unsettled, slug) ==
  SelectSeq(unsettled, LAMBDA t : t.doc.market_ticker = slug)

\* settlement.py 23-29
_RESOLUTION_RETRIES == 3
_WINNER_THRESHOLD == 98
_RTDS_SETTLE_BUFFER_SEC == 2
_WINDOW_15M_SEC == 900

\* settlement.py 41-48: the window of a {asset}-updown-15m-{ts} slug as
\* <<window_start_ts, window_end_ts>>, None for any other slug.
_parse_15m_slug(slug) ==
  IF slug = "btc-updown-15m-900" THEN Some(<<900, 900 + _WINDOW_15M_SEC>>)
  ELSE IF slug = "btc-updown-15m-1800" THEN Some(<<1800, 1800 + _WINDOW_15M_SEC>>)
  ELSE None

\* settlement.py 51-100.  read is what the call meets: the clock, the two
\* prices the reference stream returns, and whether the price lookup raised.
\* None: {"resolved": False}; Some(o): resolved with outcome o.
resolve_outcome_via_rtds(slug, read) ==
  LET window == _parse_15m_slug(slug)
  IN  IF IsNone(window) THEN None
      ELSE IF read.now < Val(window)[2] + _RTDS_SETTLE_BUFFER_SEC THEN None
      ELSE IF read.raised THEN None
      ELSE IF IsNone(read.start_price) \/ IsNone(read.end_price) THEN None
      ELSE Some(IF Val(read.end_price) >= Val(read.start_price)
                  THEN "YES" ELSE "NO")

\* settlement.py 112-171: attempt number `attempt` (from 1) of the poll.  A
\* connection error or timeout goes to the next attempt, any other exception
\* and any reply that does not show a winner end the poll unresolved.
RECURSIVE GammaAttempt(_, _)
GammaAttempt(replies, attempt) ==
  IF attempt > _RESOLUTION_RETRIES THEN None
  ELSE LET resp == replies[attempt]
       IN  IF resp.raised = "connection" THEN GammaAttempt(replies, attempt + 1)
           ELSE IF resp.raised = "other" THEN None
           ELSE IF resp.status_code /= 200 THEN None
           ELSE IF ~resp.has_market THEN None
           ELSE IF ~resp.closed THEN None
           ELSE IF Len(resp.outcome_prices) < 2 THEN None
           ELSE IF resp.outcome_prices[1] >= _WINNER_THRESHOLD THEN Some("YES")
           ELSE IF resp.outcome_prices[2] >= _WINNER_THRESHOLD THEN Some("NO")
           ELSE None

\* settlement.py 103-171.  replies[i] is what the i-th request meets.
check_market_resolution(replies) == GammaAttempt(replies, 1)

\* A resolution that falls back to NO when no source resolves.
ResolutionGuess(condition_id, clob_resolved, rtds, gamma) ==
  IF condition_id /= "" /\ condition_id \in DOMAIN clob_resolved
    THEN Some(clob_resolved[condition_id])
  ELSE IF IsSome(rtds) THEN rtds
  ELSE IF IsSome(gamma) THEN gamma
  ELSE Some("NO")

\* A resolution that asks the reference stream before the notification.
ResolutionStreamFirst(condition_id, clob_resolved, rtds, gamma) ==
  IF IsSome(rtds) THEN rtds
  ELSE IF condition_id /= "" /\ condition_id \in DOMAIN clob_resolved
    THEN Some(clob_resolved[condition_id])
  ELSE gamma

\* settlement.py 328-336: CLOB notification, then RTDS, then Gamma.  rtds and
\* gamma are what resolve_outcome_via_rtds and check_market_resolution
\* returned: None when not resolved, else the outcome.
Resolution(condition_id, clob_resolved, rtds, gamma) ==
  IF condition_id /= "" /\ condition_id \in DOMAIN clob_resolved
    THEN Some(clob_resolved[condition_id])
  ELSE IF IsSome(rtds) THEN rtds
  ELSE gamma

\* settlement.py 328-334: which of the two fallback sources the run calls.
ResolutionCalls(condition_id, clob_resolved, rtds) ==
  LET named == condition_id /= "" /\ condition_id \in DOMAIN clob_resolved
  IN  [rtds |-> ~named, gamma |-> ~named /\ IsNone(rtds)]

\* A trade of the account's history at the venue, as clob_client.get_trades
\* returns it: size in shares, price in cents.
ClobTrade(taker_order_id, maker_orders, side, outcome, size, price) ==
  [taker_order_id |-> taker_order_id, maker_orders |-> maker_orders,
   side |-> side, outcome |-> outcome, size |-> size, price |-> price]

\* The history of the account per market: on the first market order
\* "0xorder1" was filled as taker, 10 shares of YES bought at 0.45, and
\* order "0xorder2" as maker.
VenueTrades(condition_id) ==
  IF condition_id = "0xc900"
    THEN <<ClobTrade("0xorder1", <<>>, "BUY", "YES", 10, 45),
           ClobTrade("0xtaker", <<"0xorder2">>, "BUY", "NO", 4, 40)>>
    ELSE <<>>

\* settlement.py 205-231, in cents.
_compute_pnl_from_clob_trade(clob_trade, market_outcome) ==
  IF clob_trade.size <= 0 \/ clob_trade.price <= 0 THEN 0
  ELSE IF Upper(clob_trade.side) /= "BUY" THEN 0
  ELSE IF Upper(clob_trade.outcome) \in {"YES", "NO"}
    THEN IF market_outcome = Upper(clob_trade.outcome)
           THEN clob_trade.size * (100 - clob_trade.price)
           ELSE 0 - clob_trade.size * clob_trade.price
  ELSE 0

\* settlement.py 234-259.  reply: what get_trades returned, empty when the
\* request failed (clob_client.py 92-109).
_get_pnl_from_clob_trades(reply, market_outcome, our_order_id) ==
  LET matched ==
        SelectSeq(reply, LAMBDA t :
          \/ t.taker_order_id = our_order_id
          \/ \E i \in DOMAIN t.maker_orders : t.maker_orders[i] = our_order_id)
  IN  IF matched = <<>> THEN None
      ELSE Some(SumSeq([i \in DOMAIN matched |->
                          _compute_pnl_from_clob_trade(matched[i], market_outcome)]))

\* settlement.py 354: trade.get("polymarket_order_id") on a ledger document;
\* "" stands for a missing or empty id.
OrderIdOf(doc) ==
  IF "polymarket_order_id" \in DOMAIN doc THEN doc.polymarket_order_id ELSE ""

\* settlement.py 354-359
ActualPnl(doc, condition_id, outcome, reply) ==
  LET order_id == OrderIdOf(doc)
      pnl_from_clob ==
        IF order_id /= "" /\ condition_id /= ""
          THEN _get_pnl_from_clob_trades(reply, outcome, order_id)
          ELSE None
  IN  IF IsSome(pnl_from_clob) THEN Val(pnl_from_clob)
      ELSE calculate_trade_pnl(doc, outcome)

\* settlement.py 349-368: the loop over the trades of one slug.  acc carries
\* the trade table, the call history and settled_any; failing is the set of
\* trade ids whose updateSettlement mutation raises; clob is the slug's
\* condition id and what get_trades returns for it.
RECURSIVE SettleLoop(_, _, _, _, _, _)
SettleLoop(list, outcome, now_ms, failing, clob, acc) ==
  IF list = <<>> THEN acc
  ELSE LET trade == Head(list)
           actual_pnl == ActualPnl(trade.doc, clob.condition_id, outcome, clob.reply)
           status == IF actual_pnl > 0 THEN "won" ELSE "lost"
           ok == trade.id \notin failing
           written == CONVEX_URL /\ ok
           late == IsSome(acc.trades[trade.id].market_outcome)
           next ==
             IF IsSome(trade.doc.market_outcome) THEN acc
             ELSE [trades |-> update_trade_settlement(acc.trades, trade.id, outcome,
                                                      actual_pnl, status, now_ms, ok),
                   calls |-> [acc.calls EXCEPT ![trade.id] =
                                [applied |-> @.applied + (IF written THEN 1 ELSE 0),
                                 late |-> @.late + (IF late THEN 1 ELSE 0)]],
                   settled_any |-> TRUE]
       IN  SettleLoop(Tail(list), outcome, now_ms, failing, clob, next)

\* What one call of resolve_outcome_via_rtds meets.
RtdsRead(now, start_price, end_price, raised) ==
  [now |-> now, start_price |-> start_price, end_price |-> end_price,
   raised |-> raised]

\* What one request of check_market_resolution meets: an exception, or a
\* reply with its status, its first market and that market's outcomePrices
\* in cents.
GammaRaised(kind) ==
  [raised |-> kind, status_code |-> 0, has_market |-> FALSE, closed |-> FALSE,
   outcome_prices |-> <<>>]

GammaReply(status_code, has_market, closed, outcome_prices) ==
  [raised |-> "none", status_code |-> status_code, has_market |-> has_market,
   closed |-> closed, outcome_prices |-> outcome_prices]

\* What the two fallback sources meet for a slug, as <<read, replies>>: a
\* missing start price and a directory that cannot be reached; a price lookup
\* that raises and a directory showing NO; a tie on the stream and NO after
\* one connection error; a falling price one second after the later window's
\* end and YES; a falling price and a market not closed yet; a missing end
\* price and outcome prices below the winner threshold; a falling price and a
\* directory that answers 500.
SettleSources ==
  {<<RtdsRead(2702, None, Some(100), FALSE),
     <<GammaRaised("connection"), GammaRaised("connection"),
       GammaRaised("connection")>>>>,
   <<RtdsRead(2702, Some(100), Some(100), TRUE),
     <<GammaReply(200, TRUE, TRUE, <<0, 100>>), GammaRaised("other"),
       GammaRaised("other")>>>>,
   <<RtdsRead(2702, Some(100), Some(100), FALSE),
     <<GammaRaised("connection"), GammaReply(200, TRUE, TRUE, <<0, 100>>),
       GammaRaised("other")>>>>,
   <<RtdsRead(2701, Some(100), Some(99), FALSE),
     <<GammaReply(200, TRUE, TRUE, <<100, 0>>), GammaRaised("other"),
       GammaRaised("other")>>>>,
   <<RtdsRead(2702, Some(100), Some(99), FALSE),
     <<GammaReply(200, TRUE, FALSE, <<50, 50>>), GammaRaised("other"),
       GammaRaised("other")>>>>,
   <<RtdsRead(2702, Some(100), None, FALSE),
     <<GammaReply(200, TRUE, TRUE, <<97, 3>>), GammaRaised("other"),
       GammaRaised("other")>>>>,
   <<RtdsRead(2702, Some(100), Some(99), FALSE),
     <<GammaReply(500, FALSE, FALSE, <<>>), GammaRaised("other"),
       GammaRaised("other")>>>>}

\* Whether marketOutcomes:getBySlug and marketOutcomes:insert go through.
OutcomeCalls == {<<TRUE, TRUE>>, <<FALSE, TRUE>>, <<TRUE, FALSE>>}

\* The trades whose updateSettlement mutation raises: none, or one of them.
Failing(ids) == {{}} \cup {{i} : i \in ids}

\* Notification lists get_notifications can return (None: the call raised).
Notif(id, type, condition_id, outcome) ==
  [id |-> Some(id), type |-> type, condition_id |-> condition_id, outcome |-> outcome]

SettleNotifs ==
  {None,
   Some(<<Notif(3, 1, "0xc1800", "Yes")>>),
   Some(<<Notif(1, 4, "0xc900", "Up"), Notif(2, 4, "0xc900", "Down")>>)}

Range(seq) == {seq[i] : i \in DOMAIN seq}

\* What the calls of a run can meet: the notification lists, the fallback
\* sources, the outcome table calls, and whether an update can fail.
SettleMeets ==
  [notifs |-> SettleNotifs, sources |-> SettleSources, calls |-> OutcomeCalls,
   may_fail |-> TRUE]

\* settlement.py 303-320: the run starts; it returns at once when the ledger
\* is not configured or lists no unsettled trade.
SettleStartOn(run, run_next, max_runs, met) ==
  /\ run.pc = "idle"
  /\ settle_runs < max_runs
  /\ is_db_configured
  /\ \E list_ok \in BOOLEAN, notifs \in met.notifs :
       LET unsettled == list_unsettled_trades(list_ok)
           clob == _resolve_from_clob_notifications(notifs)
       IN  /\ unsettled /= <<>>
           /\ IsSome(notifs) =>
                \A i \in DOMAIN Val(notifs) : Val(Val(notifs)[i].id) \notin dropped
           /\ run_next = [pc |-> "slugs", unsettled |-> unsettled,
                          clob_resolved |-> clob.resolved,
                          notif_ids_to_drop |-> clob.to_drop,
                          pending |-> SlugsOf(unsettled),
                          settled_any |-> FALSE,
                          now_ms |-> settle_runs + 1,
                          last |-> None]
           /\ settle_runs' = settle_runs + 1
  /\ UNCHANGED <<otherVars, gateVars, engineVars, ledgerVars, settle_calls, dropped, rtdsVars>>

\* What clob_client.get_trades can return to the loop over these trades: the
\* market's history, or nothing when the request fails; it is called for a
\* trade that carries an order id only.
GetTradesReplies(list, condition_id) ==
  IF condition_id /= "" /\ \E i \in DOMAIN list : OrderIdOf(list[i].doc) /= ""
    THEN {<<>>, VenueTrades(condition_id)}
    ELSE {<<>>}

\* settlement.py 322-377: one iteration of the loop over the slugs.  With
\* record, the step leaves in run.last what the sources held for the slug,
\* which of them were called and the outcome taken.
SettleSlugOn(run, run_next, record, met) ==
  /\ run.pc = "slugs"
  /\ \E slug \in run.pending, sources \in met.sources, calls \in met.calls :
       LET list == TradesOfSlug(run.unsettled, slug)
           first_trade == Head(list)
           condition_id == first_trade.doc.condition_id
           rtds == resolve_outcome_via_rtds(slug, sources[1])
           gamma == check_market_resolution(sources[2])
           resolution == Resolution(condition_id, run.clob_resolved,
                                    rtds, gamma)
           get_ok == calls[1]
           insert_ok == calls[2]
           ids == {list[i].id : i \in DOMAIN list}
           last == IF record /\ list /= <<>>
                     THEN Some([slug |-> slug, condition_id |-> condition_id,
                                rtds |-> rtds, gamma |-> gamma,
                                called |-> ResolutionCalls(condition_id,
                                             run.clob_resolved, rtds),
                                resolution |-> resolution])
                     ELSE None
       IN  IF list = <<>> \/ IsNone(resolution)
             THEN /\ run_next = [run EXCEPT !.pending = @ \ {slug},
                                             !.last = last]
                  /\ UNCHANGED <<trades, market_outcomes, settle_calls>>
             ELSE \E failing \in IF met.may_fail THEN Failing(ids) ELSE {{}},
                     reply \in GetTradesReplies(list, condition_id) :
                    LET outcome == Val(resolution)
                        existing == get_market_outcome_by_slug(slug, get_ok)
                        done == SettleLoop(list, outcome, run.now_ms, failing,
                                  [condition_id |-> condition_id, reply |-> reply],
                                  [trades |-> trades, calls |-> settle_calls,
                                   settled_any |-> run.settled_any])
                    IN  /\ market_outcomes' =
                             IF IsNone(existing)
                               THEN insert_market_outcome(slug, condition_id, outcome,
                                                          run.now_ms, insert_ok)
                               ELSE market_outcomes
                        /\ trades' = done.trades
                        /\ settle_calls' = done.calls
                        /\ run_next = [run EXCEPT !.pending = @ \ {slug},
                                                   !.settled_any = done.settled_any,
                                                   !.last = last]
  /\ UNCHANGED <<otherVars, gateVars, engineVars, CONVEX_URL, handed, settle_runs, dropped,
                 rtdsVars>>

\* settlement.py 379-388: the notifications are dropped when any trade was
\* settled, and the run ends.
SettleFinishOn(run, run_next) ==
  /\ run.pc = "slugs"
  /\ run.pending = {}
  /\ \E drop_ok \in BOOLEAN :
       dropped' = IF run.settled_any /\ run.notif_ids_to_drop /= <<>> /\ drop_ok
                    THEN dropped \cup Range(run.notif_ids_to_drop)
                    ELSE dropped
  /\ run_next = SettleIdle
  /\ UNCHANGED <<otherVars, gateVars, engineVars, ledgerVars, settle_runs, settle_calls,
                 rtdsVars>>

\* signal_engine.py 349: the runs of the 15-minute engine, made on the thread
\* of run_loop.
SettleStart(max_runs) ==
  SettleStartOn(settle, settle', max_runs, SettleMeets) /\ UNCHANGED settle_5m

SettleSlugStep(record) ==
  SettleSlugOn(settle, settle', record, SettleMeets) /\ UNCHANGED settle_5m

SettleSlug == SettleSlugStep(FALSE)

SettleFinish ==
  SettleFinishOn(settle, settle') /\ UNCHANGED settle_5m

\* ---------------------------------- specification of the loop and the ledger
\* run_loop (signal_engine.py 305-356) alternates ticks and settlement runs
\* on one thread; the markets of two consecutive windows, a tick that reads a
\* one-sided P1 book, a two-sided P1 book or a two-tier NO agreement, and
\* ledger calls that go through or fail.

\* The loop is followed for MaxLoopOps operations, ticks and settlement runs
\* together.
MaxLoopOps == 4

\* A one-sided P1 book when the ledger answers, the same when the open-trade
\* query fails, and a two-tier NO agreement when the ledger write fails.
LoopEnvs ==
  {Env(TRUE, TRUE, <<Some(40), Some(60)>>, FALSE, <<0, 0>>, <<>>,
       <<"YES", "NO", "YES">>, <<Some(1010), Some(1000), Some(-3)>>),
   Env(FALSE, TRUE, <<Some(40), Some(60)>>, FALSE, <<0, 0>>, <<>>,
       <<"YES", "NO", "YES">>, <<Some(1010), Some(1000), Some(-3)>>),
   Env(TRUE, FALSE, <<Some(60), Some(60)>>, FALSE, <<0, 0>>,
       <<[direction |-> "NO", opposite |-> FALSE]>>,
       <<"NO", "NO", "NO">>, <<Some(1010), Some(1000), Some(-3)>>)}

LoopMarkets == {Some(Market(slug, 50)) : slug \in Slugs}

RunLoopTick ==
  /\ tick_count + settle_runs < MaxLoopOps
  /\ RunTick(LoopMarkets, LoopEnvs, MaxLoopOps)

RunSettle ==
  /\ tick_count + settle_runs < MaxLoopOps
  /\ SettleStart(MaxLoopOps)

Init ==
  /\ GateIdle
  /\ EngineIdle
  /\ CONVEX_URL \in BOOLEAN
  /\ LedgerEmpty
  /\ RtdsIdle
  /\ OtherIdle

Next == RunLoopTick \/ RunSettle \/ SettleSlug \/ SettleFinish

Spec == Init /\ [][Next]_vars

\* ------------------------------------ specification of the settlement runs
\* settle_trades alone, on a ledger that already holds open paper trades:
\* one on the earlier window, or two on the earlier window (a YES at 0.50
\* and a NO at 0.40) and one on the later.

\* Number of settle_trades runs followed.
MaxSettleRuns == 2

OpenTradeNo(slug) ==
  [OpenTrade(slug) EXCEPT !.action = "NO", !.side = "NO", !.price = Some(40),
                          !.yes_price = Some(60), !.no_price = Some(40),
                          !.position_size = 1000, !.size = 1000]

\* executor.py 123-153: the trade_data of a YES order of $5 placed at the
\* venue, which answered with order_id.
RealTradeData(slug, order_id) ==
  [market_ticker |-> slug, condition_id |-> ConditionId(slug),
   action |-> "YES", side |-> "YES", price |-> Some(50),
   yes_price |-> Some(50), no_price |-> Some(50),
   position_size |-> 500, size |-> 500, status |-> "paper",
   polymarket_order_id |-> order_id]

\* executor.py 158, database.py 150-163: the ledger document of that order.
RealTrade(slug) == _trade_to_convex_payload(RealTradeData(slug, "0xorder1"))

\* The first trade of a ledger is the real order "0xorder1", the others are
\* paper trades.
SettleOrderIds(ledger) == [i \in DOMAIN ledger |-> IF i = 1 THEN "0xorder1" ELSE ""]

SettleLedgers ==
  {<<RealTrade("btc-updown-15m-900")>>,
   <<RealTrade("btc-updown-15m-900"), OpenTradeNo("btc-updown-15m-900"),
     OpenTradeNo("btc-updown-15m-1800")>>}

InitSettle ==
  /\ GateIdle
  /\ EngineIdle
  /\ CONVEX_URL = TRUE
  /\ trades \in SettleLedgers
  /\ handed = [i \in DOMAIN trades |->
                 [slug |-> trades[i].market_ticker, trade_id |-> Some(i),
                  order_id |-> SettleOrderIds(trades)[i]]]
  /\ settle_calls = [i \in DOMAIN trades |-> NoCalls]
  /\ market_outcomes = <<>>
  /\ settle = SettleIdle
  /\ settle_5m = SettleIdle
  /\ settle_runs = 0
  /\ dropped = {}
  /\ RtdsIdle
  /\ OtherIdle

SettleRun == SettleStart(MaxSettleRuns)

SettleSlugRecorded == SettleSlugStep(TRUE)

NextSettle == SettleRun \/ SettleSlugRecorded \/ SettleFinish

SpecSettle == InitSettle /\ [][NextSettle]_vars

\* ------------------------------------- specification of calculate_trade_pnl
\* The function on stored trades of every side, with and without a
\* position_size, a size and a price, against both outcomes.  Dollars and
\* prices are in cents; the prices divide the payouts exactly.

PnlSizes == {0, 500, 1000}
PnlPrices == {None, Some(0), Some(25), Some(40), Some(50)}
PnlSides == {"", "YES", "NO", "ARBITRAGE"}

PnlTrades ==
  {[OpenTrade("btc-updown-15m-900") EXCEPT
      !.position_size = position_size, !.size = size, !.side = side,
      !.action = action, !.price = price] :
     position_size \in PnlSizes, size \in PnlSizes, side \in PnlSides,
     action \in {"YES", "NO"}, price \in PnlPrices}

\* A trade and an outcome are handed to the function.
PnlCall ==
  /\ IsNone(pnl)
  /\ \E trade \in PnlTrades, market_outcome \in {"YES", "NO"} :
       pnl' = Some([trade |-> trade, market_outcome |-> market_outcome,
                    result |-> calculate_trade_pnl(trade, market_outcome)])
  /\ UNCHANGED <<gateVars, engineVars, ledgerVars, settleVars, rtdsVars, bookVars,
                 connVars, ctlVars>>

InitPnl ==
  /\ GateIdle
  /\ EngineIdle
  /\ CONVEX_URL = TRUE
  /\ LedgerEmpty
  /\ RtdsIdle
  /\ OtherIdle

NextPnl == PnlCall

SpecPnl == InitPnl /\ [][NextPnl]_vars

\* ------------------------------------------------------ the reconnect loops
\* _run_loop and _on_open of utils/rtds_client.py, ws_rtds.py and
\* ws_polymarket.py.  One loop runs per client and process: _run_loop ends
\* only when stop() is called, at shutdown.

Max(a, b) == IF a >= b THEN a ELSE b

\* A delay that grows without a ceiling.
NextDelayUncapped(d) == (d * 3) \div 2

\* rtds_client.py 135, ws_rtds.py 123, ws_polymarket.py 258:
\* min(delay * 1.5, _MAX_RECONNECT_DELAY).  The only product that is not a
\* whole number of 64ths is above the ceiling.
NextDelay(d) == Min((d * 3) \div 2, _MAX_RECONNECT_DELAY)

\* Number of sleeps of the loop followed.
MaxReconnects == 9

\* _on_open: rtds_client.py 98-107, ws_rtds.py 84-96, ws_polymarket.py
\* 211-223.  Only ws_polymarket sets its delay back.
OnOpen ==
  /\ conn_pc = "connecting"
  /\ conn_pc' = "open"
  /\ delay' = IF client = "ws_polymarket" THEN _RECONNECT_DELAY ELSE delay
  /\ UNCHANGED <<gateVars, engineVars, ledgerVars, settleVars, rtdsVars, pnlVars, ctlVars,
                 bookVars, client, waits, last_wait>>

\* rtds_client.py 129-135, ws_rtds.py 115-123, ws_polymarket.py 252-258:
\* run_forever has returned, the attempt having failed or the connection
\* having closed; the loop sleeps and raises its delay.  rate_limited: the
\* attempt met an error naming 429 (ws_rtds.py 68-72).
RunForeverReturns ==
  /\ waits < MaxReconnects
  /\ \E rate_limited \in IF client = "ws_rtds" THEN BOOLEAN ELSE {FALSE} :
       LET slept == IF rate_limited THEN Max(delay, _RATE_LIMIT_BACKOFF_SEC)
                    ELSE delay
       IN  /\ last_wait' = Some([wait |-> slept, opened |-> conn_pc = "open",
                                 rate_limited |-> rate_limited])
           /\ delay' = NextDelay(slept)
  /\ waits' = waits + 1
  /\ conn_pc' = "connecting"
  /\ UNCHANGED <<gateVars, engineVars, ledgerVars, settleVars, rtdsVars, pnlVars, ctlVars,
                 bookVars, client>>

InitConn ==
  /\ GateIdle
  /\ EngineIdle
  /\ CONVEX_URL = TRUE
  /\ LedgerEmpty
  /\ RtdsIdle
  /\ pnl = None
  /\ BookIdle
  /\ client \in Clients
  /\ ConnStarted
  /\ StopIdle
  /\ WorkerIdle
  /\ SizeIdle
  /\ CrossIdle

NextConn == OnOpen \/ RunForeverReturns

SpecConn == InitConn /\ [][NextConn]_vars

\* --------------------------------------------------- the order book stream
\* ws_polymarket.py.  Prices are in cents, sizes in shares.

_TOP_LEVELS == 5

OrderLevel(price, size) == [price |-> price, size |-> size]

\* ws_polymarket.py 55-65: the levels with a positive price and size, in the
\* order received.
_parse_levels(raw) == SelectSeq(raw, LAMBDA item : item.price > 0 /\ item.size > 0)

\* sorted(..., key=price[, reverse=True]) is stable: a level goes behind the
\* levels it does not strictly precede.
RECURSIVE InsertLevel(_, _, _)
InsertLevel(sorted, level, reverse) ==
  IF sorted = <<>> THEN <<level>>
  ELSE LET head == Head(sorted)
           precedes == IF reverse THEN level.price > head.price
                       ELSE level.price < head.price
       IN  IF precedes THEN <<level>> \o sorted
           ELSE <<head>> \o InsertLevel(Tail(sorted), level, reverse)

RECURSIVE SortedLevels(_, _, _)
SortedLevels(levels, reverse, acc) ==
  IF levels = <<>> THEN acc
  ELSE SortedLevels(Tail(levels), reverse, InsertLevel(acc, Head(levels), reverse))

\* Levels kept in the order they were received.
LevelsAsReceived(bids, asks) == <<bids, asks>>

\* ws_polymarket.py 68-72: bids by descending price, asks by ascending price.
_order_book_levels(bids, asks) ==
  <<SortedLevels(bids, TRUE, <<>>), SortedLevels(asks, FALSE, <<>>)>>

\* seq[:n]
Take(seq, n) == SubSeq(seq, 1, Min(n, Len(seq)))

\* A book whose best prices are taken from the last level of each side.
TokenBookBestFromLast(asset_id, bids_raw, asks_raw, now_ts) ==
  LET levels == _order_book_levels(_parse_levels(bids_raw), _parse_levels(asks_raw))
      bids == levels[1]
      asks == levels[2]
  IN  [asset_id |-> asset_id,
       best_bid |-> IF bids /= <<>> THEN Some(bids[Len(bids)].price) ELSE None,
       best_ask |-> IF asks /= <<>> THEN Some(asks[Len(asks)].price) ELSE None,
       bids |-> Take(bids, _TOP_LEVELS + 2),
       asks |-> Take(asks, _TOP_LEVELS + 2),
       updated_at |-> now_ts]

\* ws_polymarket.py 94-104 and 147-158: the TokenBook built from the raw
\* levels of a book event or of a REST snapshot.
TokenBookFromLevels(asset_id, bids_raw, asks_raw, now_ts) ==
  LET levels == _order_book_levels(_parse_levels(bids_raw), _parse_levels(asks_raw))
      bids == levels[1]
      asks == levels[2]
  IN  [asset_id |-> asset_id,
       best_bid |-> IF bids /= <<>> THEN Some(bids[1].price) ELSE None,
       best_ask |-> IF asks /= <<>> THEN Some(asks[1].price) ELSE None,
       bids |-> Take(bids, _TOP_LEVELS + 2),
       asks |-> Take(asks, _TOP_LEVELS + 2),
       updated_at |-> now_ts]

\* ws_polymarket.py 86-110.  reply is None when the request failed.
_fetch_book_snapshot(asset_id, reply, now_ts) ==
  IF IsNone(reply) THEN None
  ELSE Some(TokenBookFromLevels(asset_id, Val(reply).bids, Val(reply).asks, now_ts))

\* ws_polymarket.py 166-190: one entry of a price_change event applied to
\* the books.  A best price of 0 (or a missing one) patches nothing; an
\* unparsable one makes both absent.
ApplyPriceChange(books, pc, now_ts) ==
  LET aid == pc.asset_id
      best_bid == IF pc.unparsable \/ pc.best_bid = 0 THEN None ELSE Some(pc.best_bid)
      best_ask == IF pc.unparsable \/ pc.best_ask = 0 THEN None ELSE Some(pc.best_ask)
  IN  IF aid = "" THEN books
      ELSE IF IsSome(books[aid])
        THEN [books EXCEPT ![aid] =
                Some([Val(@) EXCEPT
                        !.best_bid = IF IsSome(best_bid) THEN best_bid ELSE @,
                        !.best_ask = IF IsSome(best_ask) THEN best_ask ELSE @,
                        !.updated_at = now_ts])]
      ELSE [books EXCEPT ![aid] =
              Some([asset_id |-> aid, best_bid |-> best_bid, best_ask |-> best_ask,
                    bids |-> <<>>, asks |-> <<>>, updated_at |-> now_ts])]

\* ws_polymarket.py 165-166: the entries of a price_change event read before
\* one that is no object makes pc.get raise.
RECURSIVE ParsedPrefix(_)
ParsedPrefix(price_changes) ==
  IF price_changes = <<>> \/ Head(price_changes).malformed THEN <<>>
  ELSE <<Head(price_changes)>> \o ParsedPrefix(Tail(price_changes))

\* ws_polymarket.py 165-191: the entries are applied one by one, each under
\* the lock, until the list ends or an entry raises.
RECURSIVE ApplyPriceChanges(_, _, _)
ApplyPriceChanges(books, price_changes, now_ts) ==
  IF price_changes = <<>> THEN books
  ELSE ApplyPriceChanges(ApplyPriceChange(books, Head(price_changes), now_ts),
                         Tail(price_changes), now_ts)

\* Number of connections opened and books stored, each at a later time.
MaxBookEvents == 3

\* Raw bid and ask sides as the venue sends them: empty, best last, with
\* equal prices, with entries that are dropped (price or size 0), and longer
\* than the levels kept.
RawBids ==
  {<<>>,
   <<OrderLevel(41, 1), OrderLevel(48, 1), OrderLevel(42, 1), OrderLevel(47, 1),
     OrderLevel(43, 1), OrderLevel(46, 1), OrderLevel(44, 1), OrderLevel(45, 1)>>}

RawAsks ==
  {<<>>,
   <<OrderLevel(55, 10), OrderLevel(53, 0), OrderLevel(52, 5), OrderLevel(55, 2)>>}

PriceChange(asset_id, best_bid, best_ask, unparsable) ==
  [asset_id |-> asset_id, best_bid |-> best_bid, best_ask |-> best_ask,
   unparsable |-> unparsable, malformed |-> FALSE]

\* An entry of price_changes that is no object: pc.get raises.
MalformedEntry ==
  [asset_id |-> "", best_bid |-> 0, best_ask |-> 0, unparsable |-> FALSE,
   malformed |-> TRUE]

\* The price_changes lists of a price_change event.
PriceChangeLists ==
  {<<PriceChange("up-900", 46, 54, FALSE)>>,
   <<PriceChange("down-900", 49, 0, FALSE), PriceChange("", 40, 60, FALSE)>>,
   <<PriceChange("up-900", 46, 54, TRUE), PriceChange("down-900", 0, 0, FALSE)>>,
   <<PriceChange("down-900", 49, 52, FALSE), MalformedEntry>>,
   <<MalformedEntry, PriceChange("up-900", 46, 54, FALSE)>>}

\* The (yes_token_id, no_token_id) start() is called with: the pair of one
\* market, of the next one, and a pair with a token missing.
StartCalls ==
  {<<Some("up-900"), Some("down-900")>>,
   <<Some("up-1800"), Some("down-1800")>>,
   <<Some("up-900"), None>>}

\* Assets the venue sends book events for.
BookEventAssets == {"up-900", "up-1800"}

BookTick ==
  /\ book_clock < MaxBookEvents
  /\ book_clock' = book_clock + 1

HeldBooks(books) == {a \in AssetIds : IsSome(books[a])}

\* ws_polymarket.py 144-162: a book event replaces the asset's book.  A
\* message whose levels cannot be read raises before anything is stored.
BookEvent ==
  /\ book_conn = "open"
  /\ \/ /\ BookTick
        /\ \E asset_id \in BookEventAssets, bids_raw \in RawBids, asks_raw \in RawAsks :
             /\ _books' = [_books EXCEPT ![asset_id] =
                             Some(TokenBookFromLevels(asset_id, bids_raw, asks_raw,
                                                      book_clock'))]
             /\ patched' = patched \ {asset_id}
        /\ _stale' = FALSE
        /\ book_last' = BookStep("book")
     \/ /\ book_last' = BookLast("book", <<>>, {}, TRUE, FALSE, <<>>)
        /\ UNCHANGED <<_books, patched, _stale, book_clock>>
  /\ UNCHANGED <<gateVars, engineVars, ledgerVars, settleVars, rtdsVars, pnlVars, ctlVars,
                 connVars,
                 _subscribed_ids, book_conn, fill_threads>>

\* ws_polymarket.py 164-193: a price_change event patches the best prices of
\* the books it names and creates the ones that are missing.
PriceChangeEvent ==
  /\ book_conn = "open"
  /\ BookTick
  /\ \E price_changes \in PriceChangeLists :
       LET applied == ParsedPrefix(price_changes)
       IN  /\ _books' = ApplyPriceChanges(_books, applied, book_clock')
           /\ patched' = patched \cup
                ({applied[i].asset_id : i \in DOMAIN applied} \ {""})
           /\ _stale' = IF \E i \in DOMAIN applied : applied[i].asset_id /= ""
                          THEN FALSE ELSE _stale
           /\ book_last' = BookLast("price_change", <<>>, {},
                                    Len(applied) < Len(price_changes),
                                    FALSE, <<>>)
  /\ UNCHANGED <<gateVars, engineVars, ledgerVars, settleVars, rtdsVars, pnlVars, ctlVars,
                 connVars,
                 _subscribed_ids, book_conn, fill_threads>>

\* A REST reply: None when the request failed.
RestReplies ==
  {None,
   Some([bids |-> <<OrderLevel(45, 10), OrderLevel(0, 3), OrderLevel(47, 5),
                    OrderLevel(45, 2)>>,
         asks |-> <<OrderLevel(55, 10), OrderLevel(53, 0), OrderLevel(52, 5),
                    OrderLevel(55, 2)>>])}

\* seq without its i-th element
Without(seq, i) == SubSeq(seq, 1, i - 1) \o SubSeq(seq, i + 1, Len(seq))

\* ws_polymarket.py 120-126: one round of the loop of a thread started by
\* _on_open: it fetches the REST snapshot of the next id of its list and
\* stores it; the thread ends with its list.
FillBooksFromRest ==
  /\ \E i \in DOMAIN fill_threads, reply \in RestReplies :
       LET aid == Head(fill_threads[i])
           rest == Tail(fill_threads[i])
           book == _fetch_book_snapshot(aid, reply, book_clock + 1)
       IN  /\ fill_threads' = IF rest = <<>> THEN Without(fill_threads, i)
                              ELSE [fill_threads EXCEPT ![i] = rest]
           /\ IF IsSome(book)
                THEN /\ BookTick
                     /\ _books' = [_books EXCEPT ![aid] = book]
                     /\ patched' = patched \ {aid}
                     /\ _stale' = FALSE
                ELSE UNCHANGED <<_books, patched, _stale, book_clock>>
  /\ book_last' = BookStep("other")
  /\ UNCHANGED <<gateVars, engineVars, ledgerVars, settleVars, rtdsVars, pnlVars, ctlVars,
                 connVars,
                 _subscribed_ids, book_conn>>

\* What an on-demand fetch of get_best_asks comes to: None when the interval
\* of 5 s since the last one has not passed; else the reply, itself None
\* when the request failed.
FetchOutcomes == {None} \cup {Some(reply) : reply \in RestReplies}

\* A call that fetches the book of every subscribed id it is given.
OnDemandAlways(books, subscribed_ids, id) == id \in Range(subscribed_ids)

\* ws_polymarket.py 322 and 335: the call has to fetch the book of this id.
OnDemand(books, subscribed_ids, id) ==
  IsNone(books[id]) /\ id \in Range(subscribed_ids)

\* ws_polymarket.py 323-331 and 336-344: the book the calling thread
\* fetches for an id, None when it has none to fetch or gets none.
OnDemandBook(books, subscribed_ids, id, outcome, now_ts) ==
  IF OnDemand(books, subscribed_ids, id) /\ IsSome(outcome)
    THEN _fetch_book_snapshot(id, Val(outcome), now_ts)
    ELSE None

\* The token pairs of the two markets.
TokenPairs == {<<"up-900", "down-900">>, <<"up-1800", "down-1800">>}

\* ws_polymarket.py 310-354: get_best_asks.  Called with both ids it fetches
\* the missing books of subscribed ids itself; called without (as
\* signal_engine.py 179 does) it only reads the books of the subscribed pair.
GetBestAsks ==
  /\ book_conn /= "idle"
  /\ \/ \E pair \in TokenPairs :
          LET yes_id == pair[1]
              no_id == pair[2]
          IN  \E yes_outcome \in IF OnDemand(_books, _subscribed_ids, yes_id)
                                   THEN FetchOutcomes ELSE {None},
                 no_outcome \in IF OnDemand(_books, _subscribed_ids, no_id)
                                  THEN FetchOutcomes ELSE {None} :
                LET yb == OnDemandBook(_books, _subscribed_ids, yes_id, yes_outcome,
                                       book_clock + 1)
                    nb == OnDemandBook(_books, _subscribed_ids, no_id, no_outcome,
                                       book_clock + 1)
                    stored == (IF IsSome(yb) THEN {yes_id} ELSE {})
                                \cup (IF IsSome(nb) THEN {no_id} ELSE {})
                IN  /\ _books' = [a \in AssetIds |->
                                    IF a = yes_id /\ IsSome(yb) THEN yb
                                    ELSE IF a = no_id /\ IsSome(nb) THEN nb
                                    ELSE _books[a]]
                    /\ patched' = patched \ stored
                    /\ IF stored /= {} THEN BookTick ELSE UNCHANGED book_clock
                    /\ book_last' =
                         IF IsSome(yes_outcome) \/ IsSome(no_outcome)
                           THEN BookLast("get_best_asks", pair, HeldBooks(_books),
                                         FALSE, TRUE, <<>>)
                           ELSE BookStep("get_best_asks")
     \/ /\ book_last' = BookStep("get_best_asks")
        /\ UNCHANGED <<_books, patched, book_clock>>
  /\ UNCHANGED <<gateVars, engineVars, ledgerVars, settleVars, rtdsVars, pnlVars, ctlVars,
                 connVars,
                 _stale, _subscribed_ids, book_conn, fill_threads>>

\* sum of the sizes of the levels
RECURSIVE SumSizes(_)
SumSizes(levels) ==
  IF levels = <<>> THEN 0 ELSE Head(levels).size + SumSizes(Tail(levels))

\* The bid volume summed over every level kept, the ask volume over the
\* top levels.
ImbalanceDataAllBids(books, stale, subscribed_ids, yes_id, no_id) ==
  LET yid == IF IsSome(yes_id) THEN yes_id
             ELSE IF Len(subscribed_ids) >= 1 THEN Some(subscribed_ids[1]) ELSE None
      nid == IF IsSome(no_id) THEN no_id
             ELSE IF Len(subscribed_ids) >= 2 THEN Some(subscribed_ids[2]) ELSE None
      held == {a \in {Val(x) : x \in {yid, nid} \ {None}} : IsSome(books[a])}
      Vol(aid, side, n) ==
        IF IsSome(aid) /\ Val(aid) \in held
          THEN SumSizes(Take(Val(books[Val(aid)])[side], n))
          ELSE 0
  IN  <<Vol(yid, "bids", _TOP_LEVELS + 2) + Vol(nid, "bids", _TOP_LEVELS + 2),
        Vol(yid, "asks", _TOP_LEVELS) + Vol(nid, "asks", _TOP_LEVELS), stale>>

\* ws_polymarket.py 357-379: (bid_vol, ask_vol, stale) over the top levels
\* of the two books; an id left out is the subscribed one.
get_imbalance_data(books, stale, subscribed_ids, yes_id, no_id) ==
  LET yid == IF IsSome(yes_id) THEN yes_id
             ELSE IF Len(subscribed_ids) >= 1 THEN Some(subscribed_ids[1]) ELSE None
      nid == IF IsSome(no_id) THEN no_id
             ELSE IF Len(subscribed_ids) >= 2 THEN Some(subscribed_ids[2]) ELSE None
      held == {a \in {Val(x) : x \in {yid, nid} \ {None}} : IsSome(books[a])}
      Vol(aid, side) ==
        IF IsSome(aid) /\ Val(aid) \in held
          THEN SumSizes(Take(Val(books[Val(aid)])[side], _TOP_LEVELS))
          ELSE 0
  IN  <<Vol(yid, "bids") + Vol(nid, "bids"), Vol(yid, "asks") + Vol(nid, "asks"), stale>>

\* signal_engine.py 180: the engine asks for the subscribed pair.
GetImbalanceData ==
  /\ book_conn /= "idle"
  /\ book_last' = BookLast("get_imbalance_data", <<>>, {}, FALSE, FALSE,
                           get_imbalance_data(_books, _stale, _subscribed_ids,
                                              None, None))
  /\ UNCHANGED <<gateVars, engineVars, ledgerVars, settleVars, rtdsVars, pnlVars, ctlVars,
                 connVars,
                 _books, _stale, _subscribed_ids, book_clock, patched, book_conn,
                 fill_threads>>

\* ws_polymarket.py 211-223: the connection opens; with ids subscribed the
\* subscription naming them is sent and a thread is started that fills the
\* books from REST.  sent is what ws_sent holds afterwards.
BookOpenStep(sent) ==
  /\ book_conn = "closed"
  /\ book_conn' = "open"
  /\ BookTick
  /\ ws_sent' = sent
  /\ fill_threads' = IF _subscribed_ids /= <<>>
                       THEN Append(fill_threads, _subscribed_ids) ELSE fill_threads
  /\ book_last' = BookStep("other")
  /\ UNCHANGED <<gateVars, engineVars, ledgerVars, settleVars, rtdsVars, pnlVars,
                 stopVars, workerVars, sizeVars, rest_held, streamed, feedVars, connVars,
                 _books, _stale, _subscribed_ids, patched>>

\* The books do not depend on the subscription the connection carries:
\* SpecBook leaves ws_sent alone, SpecResub follows it.
BookOpen == BookOpenStep(ws_sent)

\* ws_polymarket.py 213-215: the subscription sent names _subscribed_ids.
BookOpenSubscribes == BookOpenStep(_subscribed_ids)

\* ws_polymarket.py 204-208: the connection, and the subscription sent on
\* it, are gone.  sent is what ws_sent holds afterwards.
BookCloseStep(sent) ==
  /\ book_conn = "open"
  /\ book_conn' = "closed"
  /\ ws_sent' = sent
  /\ _stale' = TRUE
  /\ book_last' = BookStep("other")
  /\ UNCHANGED <<gateVars, engineVars, ledgerVars, settleVars, rtdsVars, pnlVars,
                 stopVars, workerVars, sizeVars, rest_held, streamed, feedVars, connVars,
                 _books, _subscribed_ids, book_clock, patched, fill_threads>>

BookClose == BookCloseStep(ws_sent)

BookCloseUnsubscribes == BookCloseStep(<<>>)

\* A start() that drops every book.
StartIdsNone(yes_token_id, no_token_id) == <<>>

\* ws_polymarket.py 273-285 (called without markets): both ids or none.
StartIds(yes_token_id, no_token_id) ==
  IF IsSome(yes_token_id) /\ IsSome(no_token_id)
    THEN <<Val(yes_token_id), Val(no_token_id)>>
    ELSE <<>>

\* ws_polymarket.py 262-295: start() replaces the subscription, keeps the
\* books of the assets still subscribed and starts the worker unless it runs.
BookStart ==
  /\ \E call \in StartCalls :
       LET ids == StartIds(call[1], call[2])
           subscribed_set == Range(ids)
       IN  /\ _subscribed_ids' = ids
           /\ _books' = [a \in AssetIds |->
                           IF a \in subscribed_set THEN _books[a] ELSE None]
           /\ patched' = patched \cap subscribed_set
           /\ book_last' = BookLast("start", call, HeldBooks(_books), FALSE, FALSE, <<>>)
  /\ book_conn' = IF book_conn = "idle" THEN "closed" ELSE book_conn
  /\ UNCHANGED <<gateVars, engineVars, ledgerVars, settleVars, rtdsVars, pnlVars, ctlVars,
                 connVars,
                 _stale, book_clock, fill_threads>>

InitBook ==
  /\ GateIdle
  /\ EngineIdle
  /\ CONVEX_URL = TRUE
  /\ LedgerEmpty
  /\ RtdsIdle
  /\ OtherIdle

NextBook ==
  \/ BookStart
  \/ BookOpen
  \/ BookEvent
  \/ PriceChangeEvent
  \/ FillBooksFromRest
  \/ GetBestAsks
  \/ GetImbalanceData
  \/ BookClose

SpecBook == InitBook /\ [][NextBook]_vars

\* ===================================================================
\* Properties of the last-second gate (SpecGate)
\* ===================================================================

Ticked == tick.kind /= "init"

\* The P1 condition as the design states it.
P1Condition(env) ==
  /\ IsSome(env.yes_ask) /\ IsSome(env.no_ask) /\ ~env.ob_stale
  /\ \/ Val(env.yes_ask) + Val(env.no_ask) < MISPRICING_THRESHOLD
     \/ Val(env.yes_ask) < _FAIR_VALUE_UNDER
     \/ Val(env.no_ask) < _FAIR_VALUE_UNDER

IsP1Signal(signal) ==
  signal.signal_type \in {<<"mispricing_arb">>, <<"mispricing_one_sided">>}

\* The directions of P2, P3, P4 on the last tick (None: tier absent).
TierDirs ==
  <<_check_p2_whale(tick.env.whale_signals),
    _check_p3_imbalance(ImbalanceAvg(_imbalance_history)),
    _check_p4_momentum(tick.env.outcomes_5m)>>

PresentTiers == {i \in 1..3 : IsSome(TierDirs[i])}

\* The entry condition of the gate, on what the last tick read.
GateCondition(env) ==
  \/ /\ IsSome(env.btc_spot) /\ IsSome(env.price_at_start)
     /\ Val(env.price_at_start) > 0
     /\ Abs(Val(env.btc_spot) - Val(env.price_at_start)) * 1000
          <= 2 * Val(env.price_at_start)
  \/ IsSome(env.move) /\ Abs(Val(env.move)) >= 3

InGateBand(market) == market.seconds_left >= 25 /\ market.seconds_left <= 40

\* C5: on a tick with no P1 hit, an intent is emitted only if at least two of
\* P2, P3, P4 are present and all present tiers give the same direction; the
\* emitted confidence_layers is the number of agreeing tiers and the action
\* follows their direction.
C5_CompositeNeedsTwoAgreeing ==
  (Ticked /\ ~P1Condition(tick.env) /\ IsSome(tick.signal)) =>
    /\ Cardinality(PresentTiers) >= 2
    /\ \A i \in PresentTiers, j \in PresentTiers : TierDirs[i] = TierDirs[j]
    /\ Val(tick.signal).confidence_layers = Cardinality(PresentTiers)
    /\ \A i \in PresentTiers :
         Val(tick.signal).action =
           (IF TierDirs[i] = Some("YES") THEN "bet_yes" ELSE "bet_no")

\* P3 = YES and P4 = YES with P2 absent fired with two layers.
C5_Witness ==
  /\ Ticked /\ ~P1Condition(tick.env) /\ IsSome(tick.signal)
  /\ TierDirs = <<None, Some("YES"), Some("YES")>>
  /\ Val(tick.signal).confidence_layers = 2

\* C6 as stated: on any tick of a market where both asks are present, the book
\* is not stale and the P1 condition holds, exactly one P1 intent is emitted
\* and no momentum query is issued.
C6_P1OnAnyTick ==
  (Ticked /\ IsSome(tick.market) /\ P1Condition(tick.env)) =>
    /\ IsSome(tick.signal) /\ IsP1Signal(Val(tick.signal))
    /\ ~tick.p4_queried

\* C6 amended: the same, on the ticks where has_open_trade_for_market reported
\* no open trade for the slug; the intent is handed to execution exactly once.
C6_P1WhenNoOpenTrade ==
  [][(/\ tick_count' = tick_count + 1
      /\ IsSome(tick'.market)
      /\ P1Condition(tick'.env)
      /\ ~has_open_trade_for_market(Val(tick'.market).slug, tick'.env.open_query_ok))
     => (/\ IsSome(tick'.signal) /\ IsP1Signal(Val(tick'.signal))
         /\ Len(handed') = Len(handed) + 1
         /\ ~tick'.p4_queried)]_vars

\* A one-sided P1 hit fired while P2 and P4 pointed the other way.
C6_Witness ==
  /\ Ticked /\ IsSome(tick.signal)
  /\ Val(tick.signal).action = "bet_yes" /\ IsP1Signal(Val(tick.signal))
  /\ TierDirs[1] = Some("NO") /\ TierDirs[3] = Some("NO")
  /\ ~tick.p4_queried

\* C8 as stated: inside the gate band no intent of any tier is emitted unless
\* the gate condition holds.
C8_GateAllTiers ==
  (Ticked /\ IsSome(tick.market) /\ IsSome(tick.signal)
     /\ InGateBand(Val(tick.market)))
    => GateCondition(tick.env)

\* C8 amended: inside the gate band no composite (P2-P4) intent is emitted
\* unless the gate condition holds; P1 intents are not gated.
C8_GateComposite ==
  (Ticked /\ IsSome(tick.market) /\ IsSome(tick.signal)
     /\ ~IsP1Signal(Val(tick.signal))
     /\ InGateBand(Val(tick.market)))
    => GateCondition(tick.env)

\* A composite intent emitted inside the band on a qualifying 60 s move.
C8_Witness ==
  /\ Ticked /\ IsSome(tick.market) /\ IsSome(tick.signal)
  /\ ~IsP1Signal(Val(tick.signal))
  /\ InGateBand(Val(tick.market))
  /\ tick.env.btc_spot = Some(1010) /\ tick.env.price_at_start = Some(1000)
  /\ tick.env.move = Some(-3)

\* C9: on a tick where the order book is stale or an ask is missing, no intent
\* is emitted.
C9_NoIntentOnStaleBook ==
  (Ticked /\ (tick.env.ob_stale \/ IsNone(tick.env.yes_ask) \/ IsNone(tick.env.no_ask)))
    => IsNone(tick.signal)

\* C11 (as stated): on a tick where more than the configured entry window
\* remains (seconds_left > LAST_SECOND_WINDOW), no intent is emitted.
C11_NoIntentBeforeEntryWindow ==
  (Ticked /\ IsSome(tick.market)
     /\ Val(tick.market).seconds_left > LAST_SECOND_WINDOW)
    => IsNone(tick.signal)

\* C10: on a tick where the start reference price is not resolved, no intent
\* is emitted.
C10_NoIntentWithoutStartPrice ==
  (Ticked /\ IsNone(tick.env.price_at_start)) => IsNone(tick.signal)


\* ------------------------------------------------ reference price stream
\* utils/rtds_client.py, for one symbol: every structure of the client is a
\* dictionary keyed by symbol and no operation touches two symbols.

_BUFFER_MS == 600000
_START_PRICE_CACHE_MAX_AGE_SEC == 1800
_RECENT_WINDOW_SEC == 90

\* An eviction that also drops the ticks later than the arriving one.
EvictAroundArrival(buf, now_ms) ==
  SelectSeq(buf, LAMBDA e : e.t >= now_ms - _BUFFER_MS /\ e.t <= now_ms)

\* rtds_client.py 40-42
_evict_old(buf, now_ms) ==
  SelectSeq(buf, LAMBDA e : e.t >= now_ms - _BUFFER_MS)

\* rtds_client.py 70-71: append, then the stable sort by timestamp, on a
\* buffer that is sorted: the new tick lands behind the ticks that are not
\* later than it.
AppendSorted(buf, e) ==
  SelectSeq(buf, LAMBDA x : x.t <= e.t) \o <<e>> \o SelectSeq(buf, LAMBDA x : x.t > e.t)

\* rtds_client.py 63-65: a timestamp in seconds becomes milliseconds.  The
\* stamps of the model are seconds, all below the 10^12 the code tests for.
ToMs(t) == t * 1000

\* rtds_client.py 228-232: the value of the last tick of the leading run of
\* ticks that are not later than ts_ms.
RECURSIVE LastAtOrBefore(_, _, _)
LastAtOrBefore(buf, ts_ms, last) ==
  IF buf = <<>> THEN last
  ELSE IF Head(buf).t > ts_ms THEN last
  ELSE LastAtOrBefore(Tail(buf), ts_ms, Some(Head(buf).v))

\* rtds_client.py 240-243
DropOld(cache, cutoff) ==
  [k \in {x \in DOMAIN cache : x >= cutoff} |-> cache[k]]

\* A lookup that answers with the earliest tick of the buffer.
LookupEarliestTick(ts_unix_seconds, now) ==
  IF _buffers = <<>>
    THEN [result |-> None, cache |-> _start_price_caches, hit |-> FALSE]
    ELSE [result |-> Some(_buffers[1].v),
          cache |-> DropOld(Put(_start_price_caches, ts_unix_seconds, _buffers[1].v),
                            now - _START_PRICE_CACHE_MAX_AGE_SEC),
          hit |-> FALSE]

\* The lookup after the memo missed: rtds_client.py 225-243.
Lookup(ts_unix_seconds, now) ==
  IF _buffers = <<>>
    THEN [result |-> None, cache |-> _start_price_caches, hit |-> FALSE]
    ELSE LET last_at_or_before == LastAtOrBefore(_buffers, ts_unix_seconds * 1000, None)
             result ==
               IF IsSome(last_at_or_before) THEN last_at_or_before
               ELSE IF now - ts_unix_seconds <= _RECENT_WINDOW_SEC
                 THEN Some(_buffers[1].v)
               ELSE None
             cached == IF IsSome(result)
                         THEN Put(_start_price_caches, ts_unix_seconds, Val(result))
                         ELSE _start_price_caches
         IN  [result |-> result,
              cache |-> DropOld(cached, now - _START_PRICE_CACHE_MAX_AGE_SEC),
              hit |-> FALSE]

\* A lookup that never consults the memo.
PriceAtTimestampUncached(ts_unix_seconds, now) ==
  IF ts_unix_seconds <= 0
    THEN [result |-> None, cache |-> _start_price_caches, hit |-> FALSE]
    ELSE Lookup(ts_unix_seconds, now)

\* rtds_client.py 210-244: [result, cache after the call, hit].
_price_at_timestamp(ts_unix_seconds, now) ==
  IF ts_unix_seconds <= 0
    THEN [result |-> None, cache |-> _start_price_caches, hit |-> FALSE]
  ELSE IF ts_unix_seconds \in DOMAIN _start_price_caches
    THEN [result |-> Some(_start_price_caches[ts_unix_seconds]),
          cache |-> _start_price_caches, hit |-> TRUE]
  ELSE Lookup(ts_unix_seconds, now)

\* Bounds and inputs of the stream.
MaxIngest == 3
ClockTimes == {1000, 1050, 2000, 2800, 2801}
TickStamps == {995, 1000, 1040, 2000}
TickValues == {100, 101}

RtdsMessages ==
  {[value |-> Some(v), timestamp |-> ts] :
     v \in TickValues, ts \in {None} \cup {Some(t) : t \in TickStamps}}

\* time passes
ClockAdvance ==
  /\ \E t \in ClockTimes : t > now_sec /\ now_sec' = t
  /\ UNCHANGED <<otherVars, gateVars, engineVars, ledgerVars, settleVars, _latest, _buffers,
                 _start_price_caches, ingested, price_first, price_last,
                 newest>>

\* rtds_client.py 45-80 for a crypto_prices_chainlink message of the symbol
\* that carries a value; a tick is not stamped later than the clock.
OnMessage(max_ingest) ==
  /\ ingested < max_ingest
  /\ \E msg \in RtdsMessages :
       /\ IsSome(msg.timestamp) => Val(msg.timestamp) <= now_sec
       /\ _latest' = msg.value
       /\ _buffers' =
            IF IsSome(msg.timestamp)
              THEN LET ts_ms == ToMs(Val(msg.timestamp))
                   IN  _evict_old(AppendSorted(_buffers, [t |-> ts_ms, v |-> Val(msg.value)]),
                                  ts_ms)
              ELSE _buffers
       /\ newest' =
            IF IsSome(msg.timestamp)
                 /\ (IsSome(newest) => ToMs(Val(msg.timestamp)) >= Val(newest).t)
              THEN Some([t |-> ToMs(Val(msg.timestamp)), v |-> Val(msg.value)])
              ELSE newest
  /\ ingested' = ingested + 1
  /\ UNCHANGED <<otherVars, gateVars, engineVars, ledgerVars, settleVars, now_sec,
                 _start_price_caches, price_first, price_last>>

\* a call of get_btc_at_timestamp (rtds_client.py 247-249)
PriceAt ==
  /\ \E ts \in QueryTimestamps :
       LET out == _price_at_timestamp(ts, now_sec)
       IN  /\ _start_price_caches' = out.cache
           /\ price_last' = Some([ts |-> ts, now |-> now_sec, result |-> out.result,
                                  hit |-> out.hit])
           /\ price_first' = IF IsNone(price_first[ts])
                               THEN [price_first EXCEPT ![ts] = out.result]
                               ELSE price_first
  /\ UNCHANGED <<otherVars, gateVars, engineVars, ledgerVars, settleVars, now_sec, _latest,
                 _buffers, ingested, newest>>

Ingest == OnMessage(MaxIngest)

InitRtds ==
  /\ GateIdle
  /\ EngineIdle
  /\ CONVEX_URL = TRUE
  /\ LedgerEmpty
  /\ RtdsIdle
  /\ OtherIdle

NextRtds == ClockAdvance \/ Ingest \/ PriceAt

SpecRtds == InitRtds /\ [][NextRtds]_vars

\* ------------------------------------------------- claims on the ledger

\* C1 (as stated): after any sequence of settle_trades runs the outcome table
\* holds at most one record per market slug.
C1_OneRecordPerSlug ==
  \A i, j \in DOMAIN market_outcomes :
    market_outcomes[i].slug = market_outcomes[j].slug => i = j

\* C2: over any sequence of settle_trades runs, a trade that has a market
\* outcome receives no further update_trade_settlement call and its outcome,
\* profit, status and settled timestamp never change; no trade is written
\* more than once.
C2_SettledOnce ==
  [][/\ \A id \in DOMAIN trades :
          IsSome(trades[id].market_outcome) =>
            /\ trades'[id] = trades[id]
            /\ settle_calls'[id] = settle_calls[id]
     /\ \A id \in DOMAIN settle_calls' :
          /\ settle_calls'[id].applied <= 1
          /\ settle_calls'[id].late = 0
          /\ IsSome(trades'[id].market_outcome) <=> settle_calls'[id].applied = 1]_vars

\* C2 witness: a trade settled by the first run is still as that run wrote
\* it after the second run has settled another trade.
C2_Witness ==
  \E a, b \in DOMAIN trades :
    /\ trades[a].settled_at = Some(1)
    /\ trades[b].settled_at = Some(2)
    /\ settle_calls[a].applied = 1
    /\ settle_calls[b].applied = 1

\* An intent handed to execution is open until its trade is settled; an intent
\* whose ledger write failed has no trade and stays open.
OpenIntent(intent) ==
  IsNone(intent.trade_id) \/ Unsettled(trades[Val(intent.trade_id)])

\* C3 (as stated): _run_tick hands an intent to execution for a slug only
\* when no earlier intent for that slug is still unsettled.
C3_OneOpenIntentPerSlug ==
  [][Len(handed') > Len(handed) =>
       \A i \in DOMAIN handed :
         handed[i].slug = handed'[Len(handed')].slug => ~OpenIntent(handed[i])]_vars


\* ------------------------------------- claims on the reference price stream

\* C4 (as stated): once _price_at_timestamp has returned a value v for a
\* timestamp, every later call for that timestamp returns v.
C4_ValueAtIdempotent ==
  IsSome(price_last) =>
    LET call == Val(price_last)
    IN  IsSome(price_first[call.ts]) => call.result = price_first[call.ts]

\* C4 (amended): once _price_at_timestamp has returned a value v for a
\* timestamp ts, every later call for ts made while the clock is at most
\* _START_PRICE_CACHE_MAX_AGE_SEC past ts returns v.
C4_ValueAtIdempotentWhileKept ==
  IsSome(price_last) =>
    LET call == Val(price_last)
    IN  (IsSome(price_first[call.ts])
         /\ call.now - call.ts <= _START_PRICE_CACHE_MAX_AGE_SEC)
          => call.result = price_first[call.ts]

\* C4 witness: a call answered from the memo with the value first returned,
\* when the buffer as it is now would answer something else.
C4_Witness ==
  /\ IsSome(price_last)
  /\ Val(price_last).hit
  /\ Val(price_last).now = now_sec
  /\ Val(price_last).result = price_first[Val(price_last).ts]
  /\ PriceAtTimestampUncached(Val(price_last).ts, now_sec).result /= Val(price_last).result

\* ===================================================================
\* Properties of the settlement sources (SpecSettle)
\* ===================================================================

\* The slug the last step of the run worked on, and whether a venue
\* notification names its condition id.
LastSlug == Val(settle.last)

SlugStepped == settle.pc = "slugs" /\ IsSome(settle.last)

LastNamed == LastSlug.condition_id \in DOMAIN settle.clob_resolved

\* The trades of the run's snapshot on the slug of the last step.
LastTradeIds ==
  {settle.unsettled[i].id : i \in
     {j \in DOMAIN settle.unsettled :
        settle.unsettled[j].doc.market_ticker = LastSlug.slug}}

\* C12: for a slug whose condition id a venue notification names, the run
\* takes the notification's outcome whatever the reference stream and the
\* directory hold; the reference stream is called only without such a
\* notification, the directory only when the stream did not resolve; and
\* the outcome written on the slug's trades is the one taken.
C12_SourcePriority ==
  SlugStepped =>
    /\ LastNamed =>
         LastSlug.resolution = Some(settle.clob_resolved[LastSlug.condition_id])
    /\ LastSlug.called.rtds => ~LastNamed
    /\ LastSlug.called.gamma => (LastSlug.called.rtds /\ IsNone(LastSlug.rtds))
    /\ (~LastNamed /\ IsSome(LastSlug.rtds)) =>
         LastSlug.resolution = LastSlug.rtds
    /\ (~LastNamed /\ IsNone(LastSlug.rtds)) =>
         LastSlug.resolution = LastSlug.gamma
    /\ \A id \in LastTradeIds :
         IsSome(trades[id].market_outcome) =>
           trades[id].market_outcome = LastSlug.resolution

\* A notification names the slug, stream and directory hold other outcomes,
\* and a trade of the slug was settled with the notification's outcome.
C12_Witness ==
  /\ SlugStepped
  /\ LastNamed
  /\ IsSome(LastSlug.rtds)
  /\ LastSlug.rtds /= LastSlug.resolution
  /\ \E id \in LastTradeIds :
       trades[id].market_outcome = Some(settle.clob_resolved[LastSlug.condition_id])

\* No venue notification names the slug of the last step, and neither the
\* reference stream nor the directory reported it resolved.
LastUnresolved ==
  /\ SlugStepped
  /\ ~LastNamed
  /\ IsNone(LastSlug.rtds)
  /\ IsNone(LastSlug.gamma)

\* C13: a step of the run on a slug that none of the three sources reports
\* resolved (a failing source call counts as not resolved) writes no market
\* outcome and leaves the ledger as it was, the slug's trades still
\* unsettled for the next run to list.
C13_NeverGuess ==
  [][(settle'.pending /= settle.pending /\ LastUnresolved')
       => /\ market_outcomes' = market_outcomes
          /\ trades' = trades
          /\ settle_calls' = settle_calls
          /\ \A id \in LastTradeIds' : Unsettled(trades'[id])]_vars

\* The run has passed over a slug no source resolved: its trades are open
\* and no outcome is stored for it.
C13_Witness ==
  /\ LastUnresolved
  /\ LastTradeIds /= {}
  /\ \A id \in LastTradeIds : Unsettled(trades[id])
  /\ \A i \in DOMAIN market_outcomes : market_outcomes[i].slug /= LastSlug.slug

\* ===================================================================
\* Properties of calculate_trade_pnl (SpecPnl)
\* ===================================================================

\* The size and side the function works with, and the recorded price.
PnlSize ==
  IF Val(pnl).trade.position_size /= 0
    THEN Val(pnl).trade.position_size ELSE Val(pnl).trade.size

PnlSide ==
  IF Val(pnl).trade.side /= "" THEN Val(pnl).trade.side ELSE Val(pnl).trade.action

\* A directional trade of positive size at a positive recorded price.
PnlDirectional ==
  /\ IsSome(pnl)
  /\ PnlSize > 0
  /\ PnlSide \in {"YES", "NO"}
  /\ IsSome(Val(pnl).trade.price)
  /\ Val(Val(pnl).trade.price) > 0

\* C14: for a directional trade of size s > 0 at recorded price p > 0 the
\* profit is s/p - s when the side equals the outcome (result + s times p
\* is s, prices in cents) and -s otherwise; size 10 at 0.40 gives +15 on a
\* win and -10 on a loss.
C14_PnlOfDirectionalTrade ==
  PnlDirectional =>
    LET s == PnlSize
        p == Val(Val(pnl).trade.price)
        result == Val(pnl).result
    IN  /\ PnlSide = Val(pnl).market_outcome => (result + s) * p = s * 100
        /\ PnlSide /= Val(pnl).market_outcome => result = 0 - s
        /\ (s = 1000 /\ p = 40) =>
             result = IF PnlSide = Val(pnl).market_outcome THEN 1500 ELSE 0 - 1000

\* The trade of size 10 at price 0.40 has won 15.
C14_Witness ==
  /\ PnlDirectional
  /\ PnlSize = 1000
  /\ Val(pnl).trade.price = Some(40)
  /\ PnlSide = Val(pnl).market_outcome
  /\ Val(pnl).result = 1500

\* ===================================================================
\* Properties of the order book stream (SpecBook)
\* ===================================================================

StoredBooks == {Val(_books[a]) : a \in {b \in AssetIds : IsSome(_books[b])}}

BidsOrdered(book) ==
  \A i \in 1..(Len(book.bids) - 1) : book.bids[i].price >= book.bids[i + 1].price

AsksOrdered(book) ==
  \A i \in 1..(Len(book.asks) - 1) : book.asks[i].price <= book.asks[i + 1].price

\* C15: after any sequence of book events and REST snapshots whose levels
\* arrive in any order, every stored book has its bids by non-increasing
\* price and its asks by non-decreasing price.
C15_BooksOrdered ==
  \A book \in StoredBooks : BidsOrdered(book) /\ AsksOrdered(book)

\* A book whose levels arrived as bids 45, 0, 47, 45 and asks 55, 53, 52, 55
\* is stored best first.
C15_Witness ==
  \E book \in StoredBooks :
    /\ book.bids = <<OrderLevel(47, 5), OrderLevel(45, 10), OrderLevel(45, 2)>>
    /\ book.asks = <<OrderLevel(52, 5), OrderLevel(55, 10), OrderLevel(55, 2)>>

BestIsFirstLevel(book) ==
  /\ book.best_bid = IF book.bids /= <<>> THEN Some(book.bids[1].price) ELSE None
  /\ book.best_ask = IF book.asks /= <<>> THEN Some(book.asks[1].price) ELSE None

\* C16 (as stated): in every state of the order book stream, after book
\* events, price_change events and REST snapshots, each stored book's
\* best_bid is the price of bids[0] and its best_ask the price of asks[0], or
\* absent when the side has no levels.
C16_BestIsFirstLevel ==
  \A book \in StoredBooks : BestIsFirstLevel(book)

\* C16 (amended): the same for every stored book that no price_change event
\* has written since its levels were last replaced by a book event or a
\* REST snapshot.
C16_BestIsFirstLevelUnlessPatched ==
  \A a \in AssetIds \ patched :
    IsSome(_books[a]) => BestIsFirstLevel(Val(_books[a]))

\* A book with levels on both sides that no price_change has written, next
\* to a patched book whose best prices left its first levels.
C16_Witness ==
  /\ \E a \in AssetIds \ patched :
       /\ IsSome(_books[a])
       /\ Val(_books[a]).bids /= <<>>
       /\ Val(_books[a]).asks /= <<>>
  /\ \E a \in patched : IsSome(_books[a]) /\ ~BestIsFirstLevel(Val(_books[a]))

\* ===================================================================
\* Properties of the reference price buffer (SpecRtds)
\* ===================================================================

\* C17: after every tick ingest, ticks arriving in any order of timestamps,
\* the buffer is sorted by ascending timestamp and still holds the tick
\* with the greatest timestamp ingested so far.
C17_BufferSortedKeepsNewest ==
  /\ \A i \in 1..(Len(_buffers) - 1) : _buffers[i].t <= _buffers[i + 1].t
  /\ IsSome(newest) =>
       /\ _buffers /= <<>>
       /\ _buffers[Len(_buffers)] = Val(newest)

\* Three ticks were taken in, the one stamped 995 after the one stamped
\* 2000: the buffer holds them in order of timestamp, the newest last.
C17_Witness ==
  /\ ingested = 3
  /\ Len(_buffers) = 2
  /\ _buffers[1].t = ToMs(995)
  /\ _buffers[2].t = ToMs(2000)
  /\ newest = Some(_buffers[2])

\* The buffered ticks stamped at or before ts, and the values of those with
\* the greatest timestamp among them.
AtOrBefore(ts) == {i \in DOMAIN _buffers : _buffers[i].t <= ToMs(ts)}

GreatestAtOrBefore(ts) ==
  {_buffers[i].v : i \in
     {j \in AtOrBefore(ts) :
        \A k \in AtOrBefore(ts) : _buffers[k].t <= _buffers[j].t}}

\* A step that is a call of _price_at_timestamp; call is the call made.
PriceAtStep ==
  price_last' /= price_last \/ _start_price_caches' /= _start_price_caches

\* The second half of C18: with ts <= 0, or with an empty buffer and no
\* cached entry, the call returns absent and caches nothing.
AbsentCachesNothing(call) ==
  (call.ts <= 0 \/ (_buffers = <<>> /\ call.ts \notin DOMAIN _start_price_caches))
    => /\ call.result = None
       /\ _start_price_caches' = _start_price_caches

\* C18 (as stated): a call that finds no cached entry while some buffered
\* tick is stamped at or before ts returns the value of the buffered tick
\* with the greatest timestamp <= ts and caches it; with ts <= 0 or an
\* empty buffer and no cached entry it returns absent and caches nothing.
C18_FirstResolveReturnsAndCaches ==
  [][PriceAtStep =>
       LET call == Val(price_last')
       IN  /\ (call.ts > 0 /\ call.ts \notin DOMAIN _start_price_caches
                /\ AtOrBefore(call.ts) /= {})
                => /\ IsSome(call.result)
                   /\ Val(call.result) \in GreatestAtOrBefore(call.ts)
                   /\ call.ts \in DOMAIN _start_price_caches'
                   /\ _start_price_caches'[call.ts] = Val(call.result)
           /\ AbsentCachesNothing(call)]_vars

\* C18 (amended): the same, the value being cached when the clock is at
\* most _START_PRICE_CACHE_MAX_AGE_SEC past ts.
C18_FirstResolveCachesWhileKept ==
  [][PriceAtStep =>
       LET call == Val(price_last')
       IN  /\ (call.ts > 0 /\ call.ts \notin DOMAIN _start_price_caches
                /\ AtOrBefore(call.ts) /= {})
                => /\ IsSome(call.result)
                   /\ Val(call.result) \in GreatestAtOrBefore(call.ts)
                   /\ call.now - call.ts <= _START_PRICE_CACHE_MAX_AGE_SEC
                        => /\ call.ts \in DOMAIN _start_price_caches'
                           /\ _start_price_caches'[call.ts] = Val(call.result)
           /\ AbsentCachesNothing(call)]_vars

\* The call for 1000 missed the memo with ticks stamped 995 and 1000 in the
\* buffer: it returned the value of the tick stamped 1000, not that of the
\* earlier one, and the memo holds it.
C18_Witness ==
  /\ IsSome(price_last)
  /\ ~Val(price_last).hit
  /\ Val(price_last).ts = 1000
  /\ Val(price_last).now = now_sec
  /\ Len(_buffers) >= 2
  /\ _buffers[1].t = ToMs(995)
  /\ _buffers[2].t = ToMs(1000)
  /\ _buffers[1].v /= _buffers[2].v
  /\ Val(price_last).result = Some(_buffers[2].v)
  /\ 1000 \in DOMAIN _start_price_caches
  /\ _start_price_caches[1000] = _buffers[2].v

\* ===================================================================
\* Properties of the reconnect loops (SpecConn)
\* ===================================================================

\* A step in which the loop sleeps.
Slept == waits' = waits + 1

\* The waits never decrease from one failed attempt to the next and never
\* exceed the ceiling.
WaitsGrowToCeiling ==
  /\ Val(last_wait').wait <= _MAX_RECONNECT_DELAY
  /\ (IsSome(last_wait) /\ ~Val(last_wait').opened)
       => Val(last_wait').wait >= Val(last_wait).wait

\* C19 (as stated): in each client's reconnect loop the waits start at the
\* 5 s base delay, never decrease from one failed attempt to the next, and
\* never exceed the 60 s ceiling.
C19_BackoffFromBase ==
  [][Slept =>
       /\ waits = 0 => Val(last_wait').wait = _RECONNECT_DELAY
       /\ WaitsGrowToCeiling]_vars

\* C19 (amended): the same, the first wait being the 60 s rate-limit wait
\* when the attempt before it was rate limited.
C19_BackoffFromBaseUnlessRateLimited ==
  [][Slept =>
       /\ waits = 0 =>
            Val(last_wait').wait = IF Val(last_wait').rate_limited
                                     THEN _RATE_LIMIT_BACKOFF_SEC
                                     ELSE _RECONNECT_DELAY
       /\ WaitsGrowToCeiling]_vars

\* The loop has slept nine times, the last time after a failed attempt, and
\* has reached the ceiling.
C19_Witness ==
  /\ waits = 9
  /\ conn_pc = "connecting"
  /\ ~Val(last_wait).opened
  /\ ~Val(last_wait).rate_limited
  /\ Val(last_wait).wait = _MAX_RECONNECT_DELAY
  /\ delay = _MAX_RECONNECT_DELAY

\* C20 (as stated): after a connection has opened, the next wait of the
\* reference price client and of the order book client is the base delay.
C20_BaseDelayAfterOpen ==
  [][(Slept /\ client \in {"rtds_client", "ws_polymarket"}
        /\ Val(last_wait').opened)
       => Val(last_wait').wait = _RECONNECT_DELAY]_vars

\* ------------------------------------------- claims on the book client

\* The step is a start() called with both token ids.
StartedWithPair ==
  /\ book_last'.kind = "start"
  /\ IsSome(book_last'.ids[1])
  /\ IsSome(book_last'.ids[2])

\* C21: start(ids) replaces the subscription: right after it the subscribed
\* set is ids, every book held before for an instrument of ids is there
\* unchanged, and there is no book for an instrument outside ids.
C21_StartReplacesSubscription ==
  [][StartedWithPair =>
       LET ids == {Val(book_last'.ids[1]), Val(book_last'.ids[2])}
       IN  /\ Range(_subscribed_ids') = ids
           /\ \A a \in AssetIds :
                _books'[a] = IF a \in ids THEN _books[a] ELSE None]_vars

\* A start() with a pair has just kept the book of one of its instruments
\* and dropped the book of an instrument it does not name.
C21_Witness ==
  /\ book_last.kind = "start"
  /\ IsSome(book_last.ids[1])
  /\ IsSome(book_last.ids[2])
  /\ LET ids == {Val(book_last.ids[1]), Val(book_last.ids[2])}
     IN  /\ \E a \in book_last.had \cap ids : IsSome(_books[a])
         /\ \E a \in book_last.had \ ids : IsNone(_books[a])
         /\ Range(_subscribed_ids) = ids

\* C22 (as stated): while the connection is closed (streaming updates arrive
\* on an open connection only, so none has come since the close),
\* get_imbalance_data reports stale = TRUE, whatever the REST fill threads
\* have done in between.
C22_StaleWhileClosed ==
  book_conn /= "open" =>
    get_imbalance_data(_books, _stale, _subscribed_ids, None, None)[3]

\* ------------------------------ specification of the engine's shutdown

\* signal_engine.py 348: settle_trades runs every 200th tick.
_SETTLE_EVERY == 200

\* The streaming clients main_15min starts and stops.
EngineClients == {"ws_polymarket", "ws_rtds"}

\* What an iteration of run_loop calls, in order, when the market refresh
\* and the status update are due or not and the tick is the one that settles.
IterationCalls(refresh_due, status_due, settles) ==
  (IF refresh_due THEN {"fetch_btc_15min_market"} ELSE {})
    \cup (IF status_due THEN {"update_system_status"} ELSE {})
    \cup {"_run_tick"}
    \cup (IF settles THEN {"settle_trades"} ELSE {})

\* A loop that ends at the first exception of an iteration.
AfterIterationUncaught(raised) ==
  IF IsSome(raised) THEN "finally" ELSE "check"

\* signal_engine.py 351-356: after the iteration (and its sleep) the loop
\* tests the event again, whatever was raised but a KeyboardInterrupt, which
\* breaks out of it.
AfterIteration(raised) ==
  IF raised = Some("KeyboardInterrupt") THEN "finally" ELSE "check"

\* main_15min.py 53-58: the handlers of SIGTERM and SIGINT are installed.
InstallHandlers ==
  /\ main_pc = "boot"
  /\ main_pc' = "installed"
  /\ UNCHANGED <<gateVars, engineVars, ledgerVars, settleVars, rtdsVars, pnlVars,
                 bookVars, connVars, workerVars, sizeVars, crossVars,
                 _stop_event, signalled, loop_tick_count, loop_last, stopped_clients>>

\* main_15min.py 53-54, signal_engine.py 36-38: a signal reaches
\* request_shutdown, which sets the event.
StopSignal ==
  /\ main_pc \in {"installed", "check", "iteration", "finally"}
  /\ _stop_event' = TRUE
  /\ signalled' = TRUE
  /\ UNCHANGED <<gateVars, engineVars, ledgerVars, settleVars, rtdsVars, pnlVars,
                 bookVars, connVars, workerVars, sizeVars, crossVars,
                 main_pc, loop_tick_count, loop_last, stopped_clients>>

\* main_15min.py 62, signal_engine.py 305-319: run_loop is entered and
\* clears the event.
RunLoopEnter ==
  /\ main_pc = "installed"
  /\ main_pc' = "check"
  /\ _stop_event' = FALSE
  /\ loop_tick_count' = 0
  /\ UNCHANGED <<gateVars, engineVars, ledgerVars, settleVars, rtdsVars, pnlVars,
                 bookVars, connVars, workerVars, sizeVars, crossVars,
                 signalled, loop_last, stopped_clients>>

\* signal_engine.py 320: while not _stop_event.is_set()
LoopCheck ==
  /\ main_pc = "check"
  /\ main_pc' = IF _stop_event THEN "finally" ELSE "iteration"
  /\ UNCHANGED <<gateVars, engineVars, ledgerVars, settleVars, rtdsVars, pnlVars,
                 bookVars, connVars, workerVars, sizeVars, crossVars,
                 _stop_event, signalled, loop_tick_count, loop_last, stopped_clients>>

\* signal_engine.py 321-356: one iteration.  Any of its calls may raise;
\* tick_count advances when _run_tick has returned.
LoopIteration ==
  /\ main_pc = "iteration"
  /\ \E refresh_due \in BOOLEAN, status_due \in BOOLEAN :
       LET settles == (loop_tick_count + 1) % _SETTLE_EVERY = 0
           calls == IterationCalls(refresh_due, status_due, settles)
       IN  \E raised \in {None, Some("KeyboardInterrupt")}
                           \cup {Some(call) : call \in calls} :
             /\ loop_last' = Some([raised |-> raised])
             /\ main_pc' = AfterIteration(raised)
             /\ loop_tick_count' =
                  IF raised \in {None, Some("settle_trades")}
                    THEN (loop_tick_count + 1) % _SETTLE_EVERY
                    ELSE loop_tick_count
  /\ UNCHANGED <<gateVars, engineVars, ledgerVars, settleVars, rtdsVars, pnlVars,
                 bookVars, connVars, workerVars, sizeVars, crossVars,
                 _stop_event, signalled, stopped_clients>>

\* main_15min.py 63-77: run_loop has returned; the clients are stopped.
MainFinally ==
  /\ main_pc = "finally"
  /\ main_pc' = "exited"
  /\ stopped_clients' = EngineClients
  /\ UNCHANGED <<gateVars, engineVars, ledgerVars, settleVars, rtdsVars, pnlVars,
                 bookVars, connVars, workerVars, sizeVars, crossVars,
                 _stop_event, signalled, loop_tick_count, loop_last>>

InitStop ==
  /\ GateIdle
  /\ EngineIdle
  /\ CONVEX_URL = TRUE
  /\ LedgerEmpty
  /\ RtdsIdle
  /\ OtherIdle

NextStop ==
  \/ InstallHandlers
  \/ StopSignal
  \/ RunLoopEnter
  \/ LoopCheck
  \/ LoopIteration
  \/ MainFinally

SpecStop == InitStop /\ [][NextStop]_vars

\* C23 (as stated, its part on finite runs): once a signal has reached the
\* handler, the stop flag stays set for as long as run_loop has not returned,
\* so that the next test of the loop sees it.
C23_StopFlagNeverLost ==
  (signalled /\ main_pc \in {"installed", "check", "iteration"}) => _stop_event

\* C25: an exception raised inside an iteration of run_loop does not end the
\* loop: the loop is left only from its test with the stop flag set, or by
\* a KeyboardInterrupt.
C25_ExceptionKeepsLoop ==
  [][(main_pc \in {"check", "iteration"} /\ main_pc' \notin {"check", "iteration"})
       => \/ main_pc = "check" /\ _stop_event
          \/ main_pc = "iteration" /\ Val(loop_last').raised = Some("KeyboardInterrupt")]_vars

\* settle_trades has raised on a 200th tick and the loop has started a later
\* iteration.
C25_Witness ==
  /\ IsSome(loop_last)
  /\ Val(loop_last).raised = Some("settle_trades")
  /\ main_pc = "iteration"
  /\ ~_stop_event

\* ----------------------- specification of a client's worker and stop()

\* Number of connections the worker creates.
MaxWorkerRounds == 3

\* rtds_client.py 114 and 136: the test of the loop; with _stop set the
\* worker leaves it and ends.
WorkerCheck ==
  /\ w_pc = "check"
  /\ IF _stop
       THEN /\ w_pc' = "done"
            /\ _ws' = None
       ELSE /\ w_pc' = "create"
            /\ UNCHANGED _ws
  /\ UNCHANGED <<gateVars, engineVars, ledgerVars, settleVars, rtdsVars, pnlVars,
                 bookVars, connVars, stopVars, sizeVars, crossVars,
                 _stop, conn_open, closed_apps, stop_pc, start_pc, rounds>>

\* rtds_client.py 122-129: the worker creates the next app, stores it in
\* _ws and enters run_forever.
WorkerCreate ==
  /\ w_pc = "create"
  /\ rounds < MaxWorkerRounds
  /\ rounds' = rounds + 1
  /\ _ws' = Some(rounds')
  /\ w_pc' = "run"
  /\ UNCHANGED <<gateVars, engineVars, ledgerVars, settleVars, rtdsVars, pnlVars,
                 bookVars, connVars, stopVars, sizeVars, crossVars,
                 _stop, conn_open, closed_apps, stop_pc, start_pc>>

\* rtds_client.py 129: run_forever connects the app, unless it was closed.
ConnectionOpens ==
  /\ w_pc = "run"
  /\ IsNone(conn_open)
  /\ rounds \notin closed_apps
  /\ conn_open' = Some(rounds)
  /\ UNCHANGED <<gateVars, engineVars, ledgerVars, settleVars, rtdsVars, pnlVars,
                 bookVars, connVars, stopVars, sizeVars, crossVars,
                 w_pc, _stop, _ws, closed_apps, stop_pc, start_pc, rounds>>

\* rtds_client.py 129-131: run_forever returns or raises: the connection
\* failed, was lost or was closed.
WorkerRunReturns ==
  /\ w_pc = "run"
  /\ conn_open' = None
  /\ w_pc' = "returned"
  /\ UNCHANGED <<gateVars, engineVars, ledgerVars, settleVars, rtdsVars, pnlVars,
                 bookVars, connVars, stopVars, sizeVars, crossVars,
                 _stop, _ws, closed_apps, stop_pc, start_pc, rounds>>

\* rtds_client.py 132-136: the test after run_forever.
WorkerAfterRun ==
  /\ w_pc = "returned"
  /\ IF _stop
       THEN /\ w_pc' = "done"
            /\ _ws' = None
       ELSE /\ w_pc' = "sleep"
            /\ UNCHANGED _ws
  /\ UNCHANGED <<gateVars, engineVars, ledgerVars, settleVars, rtdsVars, pnlVars,
                 bookVars, connVars, stopVars, sizeVars, crossVars,
                 _stop, conn_open, closed_apps, stop_pc, start_pc, rounds>>

\* rtds_client.py 134-135: time.sleep(delay) is over.
WorkerSleep ==
  /\ w_pc = "sleep"
  /\ w_pc' = "check"
  /\ UNCHANGED <<gateVars, engineVars, ledgerVars, settleVars, rtdsVars, pnlVars,
                 bookVars, connVars, stopVars, sizeVars, crossVars,
                 _stop, _ws, conn_open, closed_apps, stop_pc, start_pc, rounds>>

\* rtds_client.py 153: stop() sets the event.
StopSet ==
  /\ stop_pc = "idle"
  /\ stop_pc' = "set"
  /\ _stop' = TRUE
  /\ UNCHANGED <<gateVars, engineVars, ledgerVars, settleVars, rtdsVars, pnlVars,
                 bookVars, connVars, stopVars, sizeVars, crossVars,
                 w_pc, _ws, conn_open, closed_apps, start_pc, rounds>>

\* rtds_client.py 154-159: stop() closes the app _ws refers to, if any, and
\* returns.
StopClose ==
  /\ stop_pc = "set"
  /\ stop_pc' = "done"
  /\ IF IsSome(_ws)
       THEN /\ closed_apps' = closed_apps \cup {Val(_ws)}
            /\ conn_open' = IF conn_open = _ws THEN None ELSE conn_open
            /\ _ws' = None
       ELSE UNCHANGED <<closed_apps, conn_open, _ws>>
  /\ UNCHANGED <<gateVars, engineVars, ledgerVars, settleVars, rtdsVars, pnlVars,
                 bookVars, connVars, stopVars, sizeVars, crossVars,
                 w_pc, _stop, start_pc, rounds>>

\* The worker of any of the three clients: their loops and their stop() are
\* alike.
InitWorker ==
  /\ GateIdle
  /\ EngineIdle
  /\ CONVEX_URL = TRUE
  /\ LedgerEmpty
  /\ RtdsIdle
  /\ pnl = None
  /\ BookIdle
  /\ client \in Clients
  /\ ConnStarted
  /\ StopIdle
  /\ WorkerIdle
  /\ SizeIdle
  /\ CrossIdle

NextWorker ==
  \/ WorkerCheck
  \/ WorkerCreate
  \/ ConnectionOpens
  \/ WorkerRunReturns
  \/ WorkerAfterRun
  \/ WorkerSleep
  \/ StopSet
  \/ StopClose

SpecWorker == InitWorker /\ [][NextWorker]_vars

\* C24 (as stated, its part on finite runs): once stop() has returned, no
\* connection of the client is open, however stop() and the worker's loop
\* interleave.
C24_NoConnectionAfterStop ==
  stop_pc = "done" => IsNone(conn_open)

\* C26 (as stated): no call of get_best_asks or get_imbalance_data sends a
\* network request in the calling thread.
C26_NoRequestInCaller ==
  book_last.kind \in {"get_best_asks", "get_imbalance_data"} => ~book_last.network

\* C26 (amended): the calling thread sends a request only in get_best_asks
\* called with both ids, for a subscribed id of the call that had no book;
\* get_imbalance_data never does.
C26_RequestOnlyOnDemand ==
  /\ book_last.network =>
       /\ book_last.kind = "get_best_asks"
       /\ Len(book_last.ids) = 2
       /\ \E i \in 1..2 :
            /\ book_last.ids[i] \in Range(_subscribed_ids)
            /\ book_last.ids[i] \notin book_last.had
  /\ book_last.kind = "get_imbalance_data" => ~book_last.network

\* get_best_asks(yes_id, no_id) has fetched and stored the missing book of
\* its subscribed yes_id.
C26_Witness ==
  /\ book_last.kind = "get_best_asks"
  /\ book_last.network
  /\ book_last.ids[1] \notin book_last.had
  /\ IsSome(_books[book_last.ids[1]])

\* The books with the two sides of each exchanged.
SwapSides(books) ==
  [a \in AssetIds |->
     IF IsSome(books[a])
       THEN Some([Val(books[a]) EXCEPT !.bids = Val(books[a]).asks,
                                       !.asks = Val(books[a]).bids])
       ELSE None]

\* C27: exchanging the bid and ask levels of both books exchanges the two
\* volumes get_imbalance_data returns and negates the imbalance the engine
\* computes from them; with no volume at all the imbalance is 0.
C27_ImbalanceSymmetric ==
  LET data == get_imbalance_data(_books, _stale, _subscribed_ids, None, None)
      swapped == get_imbalance_data(SwapSides(_books), _stale, _subscribed_ids,
                                    None, None)
  IN  /\ swapped[1] = data[2]
      /\ swapped[2] = data[1]
      /\ Imbalance(swapped[1], swapped[2]) = -Imbalance(data[1], data[2])
      /\ data[1] + data[2] = 0 => Imbalance(data[1], data[2]) = 0

\* get_imbalance_data has returned unequal volumes of books of which one has
\* more bid levels than are summed; the imbalance is not 0.
C27_Witness ==
  /\ book_last.kind = "get_imbalance_data"
  /\ book_last.result[1] > 0
  /\ book_last.result[2] > 0
  /\ Imbalance(book_last.result[1], book_last.result[2]) /= 0
  /\ \E i \in DOMAIN _subscribed_ids :
       /\ IsSome(_books[_subscribed_ids[i]])
       /\ Len(Val(_books[_subscribed_ids[i]]).bids) > _TOP_LEVELS

\* --------------------------------- specification of the position sizing

\* src/src/utils/config.py 23-25: the shares of the bankroll a trade may
\* take, in hundredths (MAX_POSITION_SIZE of that file is the first).
RISK_MAX_POSITION_SIZE == 5
MAX_POSITION_SIZE_LOGIC == 10
MAX_POSITION_SIZE_ARB == 15

\* position_sizing.py 32-37: the ceiling of a trade type on a bankroll in
\* dollars, in cents.
MaxSize(bankroll, trade_type) ==
  IF trade_type = "logic" THEN bankroll * MAX_POSITION_SIZE_LOGIC
  ELSE IF trade_type = "internal_arb" THEN bankroll * MAX_POSITION_SIZE_ARB
  ELSE bankroll * RISK_MAX_POSITION_SIZE

\* position_sizing.py 26-30: bankroll * (edge / (1 - implied_prob)) *
\* confidence * 0.25 in cents, rounded towards zero; edge, confidence and
\* implied_prob are in hundredths, the bankroll in dollars.
KellySize(edge, confidence, bankroll, implied_prob) ==
  LET p == IF implied_prob >= 100 THEN 99 ELSE implied_prob
      num == bankroll * edge * confidence
      den == 4 * (100 - p)
  IN  IF num >= 0 THEN num \div den ELSE -((-num) \div den)

\* A size that no ceiling limits.
SizeWithoutCeiling(edge, confidence, bankroll, trade_type, implied_prob) ==
  IF bankroll <= 0 \/ confidence <= 0 THEN 0
  ELSE Max(KellySize(edge, confidence, bankroll, implied_prob), 0)

\* position_sizing.py 10-39
calculate_position_size(edge, confidence, bankroll, trade_type, implied_prob) ==
  IF bankroll <= 0 \/ confidence <= 0 THEN 0
  ELSE Min(Max(KellySize(edge, confidence, bankroll, implied_prob), 0),
           MaxSize(bankroll, trade_type))

SizeEdges == {-10, 0, 5, 20, 60}
SizeConfidences == {-50, 0, 50, 100}
SizeBankrolls == {-100, 0, 1000}
SizeTradeTypes == {"logic", "internal_arb", "cross_platform"}
SizeImpliedProbs == {0, 50, 99, 100, 120}

SizeCall ==
  /\ \E edge \in SizeEdges, confidence \in SizeConfidences,
        bankroll \in SizeBankrolls, trade_type \in SizeTradeTypes,
        implied_prob \in SizeImpliedProbs :
       sizing' = Some([edge |-> edge, confidence |-> confidence,
                       bankroll |-> bankroll, trade_type |-> trade_type,
                       implied_prob |-> implied_prob,
                       size |-> calculate_position_size(edge, confidence, bankroll,
                                                        trade_type, implied_prob)])
  /\ UNCHANGED <<gateVars, engineVars, ledgerVars, settleVars, rtdsVars, pnlVars,
                 bookVars, connVars, stopVars, workerVars, crossVars>>

InitSize ==
  /\ GateIdle
  /\ EngineIdle
  /\ CONVEX_URL = TRUE
  /\ LedgerEmpty
  /\ RtdsIdle
  /\ OtherIdle

NextSize == SizeCall

SpecSize == InitSize /\ [][NextSize]_vars

C29_UnparsedMessageDropped ==
  [][(book_last'.kind \in {"book", "price_change"} /\ book_last'.dropped)
       => UNCHANGED <<_books, _stale>>]_vars

\* C30 (as stated): after every tick ingest, no tick of the buffer is more
\* than the retention window of 10 minutes older than the newest tick of the
\* buffer.
C30_BufferWithinRetention ==
  \A i \in DOMAIN _buffers :
    _buffers[i].t >= _buffers[Len(_buffers)].t - _BUFFER_MS

\* ===================================================================
\* The fallback of _price_at_timestamp to the earliest tick (SpecRtds)
\* ===================================================================

\* The case of C31 at a call: the buffer holds ticks, none of them stamped
\* at or before the timestamp asked about.
NoTickAtOrBefore(call) == _buffers /= <<>> /\ AtOrBefore(call.ts) = {}

\* What C31 says of such a call: within _RECENT_WINDOW_SEC of the clock the
\* earliest buffered tick's value is returned and cached for ts; further
\* back the call returns absent and no entry is added to the cache.
FallbackOutcome(call) ==
  IF call.now - call.ts <= _RECENT_WINDOW_SEC
    THEN /\ call.result = Some(_buffers[1].v)
         /\ call.ts \in DOMAIN _start_price_caches'
         /\ _start_price_caches'[call.ts] = _buffers[1].v
    ELSE /\ call.result = None
         /\ \A k \in DOMAIN _start_price_caches' :
              /\ k \in DOMAIN _start_price_caches
              /\ _start_price_caches'[k] = _start_price_caches[k]

\* C31 (as stated): when no buffered tick has timestamp <= ts and the buffer
\* is non-empty, _price_at_timestamp returns and caches the earliest
\* buffered tick's value if ts is within 90 s of now, and returns absent and
\* caches nothing if ts is more than 90 s before now.
C31_FallbackToEarliest ==
  [][PriceAtStep =>
       LET call == Val(price_last')
       IN  NoTickAtOrBefore(call) => FallbackOutcome(call)]_vars

\* C31 (amended): the same for a call that finds no cached value for ts; a
\* cached value is returned whatever the buffer holds.
C31_FallbackToEarliestOnMiss ==
  [][PriceAtStep =>
       LET call == Val(price_last')
       IN  /\ (NoTickAtOrBefore(call) /\ call.ts \notin DOMAIN _start_price_caches)
                => FallbackOutcome(call)
           /\ call.ts \in DOMAIN _start_price_caches
                => call.result = Some(_start_price_caches[call.ts])]_vars

\* Asked at 1050 about 1000 with only a tick stamped 1040 buffered: the call
\* missed the memo, returned that tick's value and cached it for 1000.
C31_Witness ==
  /\ IsSome(price_last)
  /\ ~Val(price_last).hit
  /\ Val(price_last).ts = 1000
  /\ Val(price_last).now = 1050
  /\ now_sec = 1050
  /\ _buffers /= <<>>
  /\ _buffers[1].t = ToMs(1040)
  /\ Val(price_last).result = Some(_buffers[1].v)
  /\ 1000 \in DOMAIN _start_price_caches
  /\ _start_price_caches[1000] = _buffers[1].v

\* ===================================================================
\* The rate-limit wait of the reference price client (SpecConn)
\* ===================================================================

\* C32: after the reference price client sees a rate-limited (429) error its
\* next wait before reconnecting is at least the 60 s forced wait, and the
\* backoff delay is back at the base delay for the reconnects that follow:
\* the wait after the forced one, the attempt before it not being rate
\* limited itself, is the 5 s base delay.
C32_RateLimitWaitThenBase ==
  [][(Slept /\ client \in {"rtds_client", "ws_rtds"}) =>
       /\ Val(last_wait').rate_limited
            => Val(last_wait').wait >= _RATE_LIMIT_BACKOFF_SEC
       /\ (IsSome(last_wait) /\ Val(last_wait).rate_limited
             /\ ~Val(last_wait').rate_limited)
            => Val(last_wait').wait = _RECONNECT_DELAY]_vars

\* ------------------- specification of two processes settling one ledger
\* The 5-minute bot (main.py) and the 15-minute engine (main_15min.py) are
\* separate processes on one ledger (database.py reads the one CONVEX_URL).
\* Each calls settle_trades on its loop thread: main.py 174 at the end of
\* every scan, signal_engine.py 349 after every 200th tick.  settle_trades
\* takes no lock and no lease on the ledger.

\* Number of settle_trades runs started, by both processes together.
MaxDualRuns == 2

\* What the runs of the two processes meet: no notification list, a stream
\* that shows a falling price or has no start price yet while the directory
\* cannot be reached, and ledger calls that go through.
DualMeets ==
  [notifs |-> {None},
   sources |-> {s \in SettleSources :
                  /\ s[1].now = 2702 /\ ~s[1].raised
                  /\ s[2][1].raised = "connection" \/ s[2][1].status_code = 500},
   calls |-> {<<TRUE, TRUE>>},
   may_fail |-> FALSE]

\* signal_engine.py 348-349
EngineSettleStart ==
  SettleStartOn(settle, settle', MaxDualRuns, DualMeets) /\ UNCHANGED settle_5m

EngineSettleSlug ==
  SettleSlugOn(settle, settle', FALSE, DualMeets) /\ UNCHANGED settle_5m

\* main.py 174
BotSettleStart ==
  SettleStartOn(settle_5m, settle_5m', MaxDualRuns, DualMeets) /\ UNCHANGED settle

BotSettleSlug ==
  SettleSlugOn(settle_5m, settle_5m', FALSE, DualMeets) /\ UNCHANGED settle

BotSettleFinish ==
  SettleFinishOn(settle_5m, settle_5m') /\ UNCHANGED settle

InitDual == InitSettle

NextDual ==
  \/ EngineSettleStart
  \/ EngineSettleSlug
  \/ SettleFinish
  \/ BotSettleStart
  \/ BotSettleSlug
  \/ BotSettleFinish

SpecDual == InitDual /\ [][NextDual]_vars

\* C33: no two executions of settle_trades against the same ledger are in
\* progress at the same time, also when the 5-minute bot process and the
\* 15-minute engine process run side by side.
C33_OneSettlementAtATime ==
  ~(settle.pc /= "idle" /\ settle_5m.pc /= "idle")

\* ===================================================================
\* Profit from the venue's fills (SpecSettle)
\* ===================================================================

\* The fills of the venue's history that match an order id.
MatchingFills(condition_id, order_id) ==
  SelectSeq(VenueTrades(condition_id), LAMBDA t :
    \/ t.taker_order_id = order_id
    \/ \E i \in DOMAIN t.maker_orders : t.maker_orders[i] = order_id)

\* The profit of a settled trade computed from the fills of its order.
ProfitFromFills(i) ==
  LET matched == MatchingFills(trades[i].condition_id, handed[i].order_id)
  IN  SumSeq([k \in DOMAIN matched |->
                _compute_pnl_from_clob_trade(matched[k], Val(trades[i].market_outcome))])

\* C34: for each settled trade, if the trade has a venue order id and a
\* condition id and the venue's trade history contains a fill matching that
\* order id, the recorded profit is the sum over the matching fills computed
\* from their filled price and size; in every other case it is computed from
\* the trade's intended price and size assuming full fill.
C34_ProfitFromFills ==
  \A i \in DOMAIN trades :
    IsSome(trades[i].market_outcome) =>
      trades[i].actual_profit =
        IF /\ handed[i].order_id /= ""
           /\ trades[i].condition_id /= ""
           /\ MatchingFills(trades[i].condition_id, handed[i].order_id) /= <<>>
          THEN Some(ProfitFromFills(i))
          ELSE Some(calculate_trade_pnl(trades[i], Val(trades[i].market_outcome)))

\* ===================================================================
\* Trades and the SettlementRecord of their slug (SpecSettle)
\* ===================================================================

\* C35: after any sequence of settle_trades runs, in which different runs
\* may obtain different outcomes for the same slug from different sources,
\* every settled trade's recorded market outcome equals the outcome stored in
\* the SettlementRecord of its slug, the record get_market_outcome_by_slug
\* returns.
C35_TradeOutcomeIsRecorded ==
  \A i \in DOMAIN trades :
    IsSome(trades[i].market_outcome) =>
      LET record == LedgerGetOutcomeBySlug(trades[i].market_ticker)
      IN  IsSome(record) => Val(record).outcome = Val(trades[i].market_outcome)

\* ===================================================================
\* Acknowledging the venue's notifications (SpecSettle)
\* ===================================================================

\* The market a notification of the venue names.
NotifMarket(id) ==
  LET named == {n.condition_id : n \in
                  UNION {Range(Val(list)) : list \in SettleNotifs \ {None}}}
      of_id == {c \in named :
                  \E list \in SettleNotifs \ {None} :
                    \E k \in DOMAIN Val(list) :
                      Val(list)[k].id = Some(id) /\ Val(list)[k].condition_id = c}
  IN  CHOOSE c \in of_id : TRUE

\* C36: a venue resolution notification is acknowledged (dropped) by
\* settle_trades only if, in that run, every unsettled trade of the market it
\* names was settled; a notification for a market none of whose trades was
\* settled in the run is not acknowledged.
C36_AckOnlySettledMarkets ==
  [][\A id \in dropped' \ dropped :
       \A k \in DOMAIN settle.unsettled :
         settle.unsettled[k].doc.condition_id = NotifMarket(id)
           => IsSome(trades[settle.unsettled[k].id].market_outcome)]_vars

\* ------------- specification of REST snapshots beside streaming book events
\* _fill_books_from_rest (ws_polymarket.py 113-128) and the on-demand fetch of
\* get_best_asks (322-331, 335-344) request a snapshot without holding _lock
\* and take the lock afterwards to store it; _on_message stores a book event
\* under the same lock (144-162).  The stream is followed from the state
\* start("up-900", "down-900") and _on_open leave.

\* The venue's book of every asset at a time: the best prices move by a cent
\* with every tick of the clock.
VenueReply(now_ts) ==
  Some([bids |-> <<OrderLevel(40 + now_ts, 1)>>,
        asks |-> <<OrderLevel(60 + now_ts, 1)>>])

\* The time the venue's book held the content of a stored book.
ContentTime(book) == Val(book.best_bid) - 40

\* Time passes and the venue's books change.
VenueTick ==
  /\ BookTick
  /\ UNCHANGED <<gateVars, engineVars, ledgerVars, settleVars, rtdsVars, pnlVars,
                 connVars, stopVars, workerVars, sizeVars, crossVars,
                 _books, _stale, _subscribed_ids, patched, book_conn, fill_threads,
                 book_last>>

\* The fill thread goes on to the next id of its list (ws_polymarket.py 119).
FillAdvance ==
  IF Tail(fill_threads[1]) = <<>> THEN Tail(fill_threads)
  ELSE [fill_threads EXCEPT ![1] = Tail(@)]

\* The ids a requester can ask for: the fill thread the next id of its list,
\* a caller of get_best_asks a subscribed id that has no book (322, 335).
RequestIds(r) ==
  IF r = "fill"
    THEN IF fill_threads = <<>> THEN {} ELSE {Head(fill_threads[1])}
    ELSE {id \in AssetIds : OnDemand(_books, _subscribed_ids, id)}

\* ws_polymarket.py 120 (325, 338): _fetch_book_snapshot returns to the
\* requester, with the venue's book of this moment or with None.
RestRequest ==
  /\ \E r \in Requesters :
       /\ rest_held[r] = None
       /\ \E aid \in RequestIds(r), reply \in {None, VenueReply(book_clock)} :
            LET book == _fetch_book_snapshot(aid, reply, book_clock)
            IN  IF IsSome(book)
                  THEN /\ rest_held' = [rest_held EXCEPT
                                          ![r] = Some([aid |-> aid, book |-> book])]
                       /\ UNCHANGED fill_threads
                  ELSE /\ fill_threads' = IF r = "fill" THEN FillAdvance
                                          ELSE fill_threads
                       /\ UNCHANGED rest_held
  /\ book_last' = BookStep("other")
  /\ UNCHANGED <<gateVars, engineVars, ledgerVars, settleVars, rtdsVars, pnlVars,
                 connVars, stopVars, workerVars, sizeVars, streamed, ws_sent, feedVars,
                 _books, _stale, _subscribed_ids, book_clock, patched, book_conn>>

\* ws_polymarket.py 122-124 (327-330, 340-343): under the lock the book is
\* stored, whatever _books holds for the asset.
Stored(books, held) == [books EXCEPT ![held.aid] = held.book]

\* The requester takes the lock and stores the snapshot it holds.
RestStore ==
  /\ \E r \in Requesters :
       /\ IsSome(rest_held[r])
       /\ _books' = Stored(_books, Val(rest_held[r]))
       /\ patched' = patched \ {Val(rest_held[r]).aid}
       /\ _stale' = IF r = "fill" THEN FALSE ELSE _stale
       /\ fill_threads' = IF r = "fill" THEN FillAdvance ELSE fill_threads
       /\ rest_held' = [rest_held EXCEPT ![r] = None]
  /\ book_last' = BookStep("other")
  /\ UNCHANGED <<gateVars, engineVars, ledgerVars, settleVars, rtdsVars, pnlVars,
                 connVars, stopVars, workerVars, sizeVars, streamed, ws_sent, feedVars,
                 _subscribed_ids, book_clock, book_conn>>

\* ws_polymarket.py 144-162: a book event of a subscribed asset arrives with
\* the venue's book of this moment and replaces the asset's book.
StreamedBookEvent ==
  /\ book_conn = "open"
  /\ \E asset_id \in Range(_subscribed_ids) :
       /\ _books' = [_books EXCEPT ![asset_id] =
                       Some(TokenBookFromLevels(asset_id, Val(VenueReply(book_clock)).bids,
                                                Val(VenueReply(book_clock)).asks,
                                                book_clock))]
       /\ patched' = patched \ {asset_id}
       /\ streamed' = [streamed EXCEPT ![asset_id] = Some(book_clock)]
  /\ _stale' = FALSE
  /\ book_last' = BookStep("book")
  /\ UNCHANGED <<gateVars, engineVars, ledgerVars, settleVars, rtdsVars, pnlVars,
                 connVars, stopVars, workerVars, sizeVars, rest_held, ws_sent, feedVars,
                 _subscribed_ids, book_clock, book_conn, fill_threads>>

InitRace ==
  /\ GateIdle
  /\ EngineIdle
  /\ CONVEX_URL = TRUE
  /\ LedgerEmpty
  /\ RtdsIdle
  /\ pnl = None
  /\ _books = [a \in AssetIds |-> None]
  /\ _stale = TRUE
  /\ _subscribed_ids = <<"up-900", "down-900">>
  /\ book_clock = 1
  /\ patched = {}
  /\ book_conn = "open"
  /\ fill_threads = <<_subscribed_ids>>
  /\ book_last = BookStep("other")
  /\ ConnIdle
  /\ StopIdle
  /\ WorkerIdle
  /\ SizeIdle
  /\ rest_held = [r \in Requesters |-> None]
  /\ streamed = [a \in AssetIds |-> None]
  /\ ws_sent = _subscribed_ids
  /\ FeedIdle

NextRace == VenueTick \/ RestRequest \/ StreamedBookEvent \/ RestStore

SpecRace == InitRace /\ [][NextRace]_vars

\* C37: under every interleaving of the REST pre-fill thread or an on-demand
\* fetch with book events, the stored book of an instrument is never older in
\* content than the latest streaming book event received for it.
C37_SnapshotNeverReplacesNewer ==
  \A a \in AssetIds :
    (IsSome(_books[a]) /\ IsSome(streamed[a]))
      => ContentTime(Val(_books[a])) >= Val(streamed[a])

\* ===================================================================
\* Re-subscription of the order book stream (SpecResub)
\* ===================================================================

InitResub == InitBook

NextResub ==
  \/ BookStart
  \/ BookOpenSubscribes
  \/ BookEvent
  \/ FillBooksFromRest
  \/ BookCloseUnsubscribes

SpecResub == InitResub /\ [][NextResub]_vars

\* C38: after start(newIds) on a connected order book stream the connection
\* carries a subscription for exactly newIds; no reader ever meets an open
\* connection that is subscribed to other instruments than the ones start()
\* named last.
C38_StartResubscribesLiveConnection ==
  (book_conn = "open" /\ _subscribed_ids /= <<>>)
    => Range(ws_sent) = Range(_subscribed_ids)

\* ----------------------- specification of stop() followed by start()

\* rtds_client.py 139-147, ws_rtds.py 127-135, ws_polymarket.py 290-295:
\* start() called once stop() has returned. With the thread of the old worker
\* alive it returns at once; otherwise it clears the stop flag and starts a
\* new worker.
WorkerStart ==
  /\ stop_pc = "done"
  /\ start_pc = "idle"
  /\ start_pc' = "done"
  /\ IF w_pc /= "done"
       THEN UNCHANGED <<_stop, w_pc>>
       ELSE /\ _stop' = FALSE
            /\ w_pc' = "check"
  /\ UNCHANGED <<gateVars, engineVars, ledgerVars, settleVars, rtdsVars, pnlVars,
                 bookVars, connVars, stopVars, sizeVars, crossVars,
                 _ws, conn_open, closed_apps, stop_pc, rounds>>

InitRestart == InitWorker

NextRestart ==
  \/ WorkerCheck
  \/ WorkerCreate
  \/ ConnectionOpens
  \/ WorkerRunReturns
  \/ WorkerAfterRun
  \/ WorkerSleep
  \/ StopSet
  \/ StopClose
  \/ WorkerStart

SpecRestart == InitRestart /\ [][NextRestart]_vars

\* C39: once start() has returned after stop(), a worker is running with
\* the stop flag clear, however the two calls interleave with the old worker.
C39_WorkerRunsAfterRestart ==
  start_pc = "done" => (w_pc /= "done" /\ ~_stop)

\* ----------------------- specification of the 15-minute engine's price feed
\*
\* main_15min.py starts the client of ws_rtds (line 38); the signal engine
\* reads through the getters of utils/rtds_client (signal_engine.py 29 and
\* 273), whose start() the process never calls.  Prices are in dollars, a
\* move is in basis points.

\* Messages of the BTC stream; the stamp is in milliseconds, as ws_rtds
\* takes it (ws_rtds.py 56).
WsRtdsMessages ==
  {[value |-> Some(v), timestamp |-> ts] :
     v \in TickValues, ts \in {None} \cup {Some(ToMs(t)) : t \in TickStamps}}

\* rtds_client.py 191-207 and ws_rtds.py 156-174: the move of the latest
\* value against the last tick that is at least 60 seconds old.
_move_60s(buf, latest_v, now) ==
  IF buf = <<>> \/ IsNone(latest_v) THEN None
  ELSE LET price_at_cutoff == LastAtOrBefore(buf, ToMs(now) - 60 * 1000, None)
       IN  IF IsNone(price_at_cutoff) \/ Val(price_at_cutoff) <= 0 THEN None
           ELSE Some(((Val(latest_v) - Val(price_at_cutoff)) * 10000)
                       \div Val(price_at_cutoff))

\* ws_rtds.py 177-190: get_btc_at_timestamp of ws_rtds.
WsBtcAtTimestamp(ts_unix_seconds) ==
  IF ts_unix_seconds <= 0 THEN None
  ELSE IF _buffer = <<>> THEN None
  ELSE LastAtOrBefore(_buffer, ts_unix_seconds * 1000, None)

\* ws_rtds.py 43-65: a crypto_prices_chainlink message of btc/usd that
\* carries a value; a tick is not stamped later than the clock.
WsRtdsOnMessage ==
  /\ ingested < MaxIngest
  /\ \E msg \in WsRtdsMessages :
       /\ IsSome(msg.timestamp) => Val(msg.timestamp) <= ToMs(now_sec)
       /\ _latest_btc_usd' = msg.value
       /\ _latest_ts_ms' = msg.timestamp
       /\ _buffer' =
            IF IsSome(msg.timestamp)
              THEN _evict_old(AppendSorted(_buffer, [t |-> Val(msg.timestamp),
                                                     v |-> Val(msg.value)]),
                              Val(msg.timestamp))
              ELSE _buffer
  /\ ingested' = ingested + 1
  /\ UNCHANGED <<gateVars, engineVars, ledgerVars, settleVars, pnlVars, bookVars,
                 connVars, stopVars, workerVars, sizeVars,
                 rest_held, streamed, ws_sent,
                 now_sec, _latest, _buffers, _start_price_caches,
                 price_first, price_last, newest, engine_read>>

\* signal_engine.py 270-275 and 163: the reads of a tick that reaches the
\* last-second gate, all through utils/rtds_client.  fed holds what the
\* getters of ws_rtds give at the same moment.
EngineReads ==
  /\ \E strike \in QueryTimestamps \ {0} :
       LET out == _price_at_timestamp(strike, now_sec)
       IN  /\ _start_price_caches' = out.cache
           /\ engine_read' =
                Some([strike |-> strike,
                      btc_spot |-> _latest,
                      strike_price |-> out.result,
                      move |-> _move_60s(_buffers, _latest, now_sec),
                      fed |-> [btc_spot |-> _latest_btc_usd,
                               strike_price |-> WsBtcAtTimestamp(strike),
                               move |-> _move_60s(_buffer, _latest_btc_usd, now_sec)]])
  /\ UNCHANGED <<gateVars, engineVars, ledgerVars, settleVars, pnlVars, bookVars,
                 connVars, stopVars, workerVars, sizeVars,
                 rest_held, streamed, ws_sent,
                 now_sec, _latest, _buffers, ingested,
                 price_first, price_last, newest,
                 _latest_btc_usd, _latest_ts_ms, _buffer>>

InitFeed == InitRtds

NextFeed == ClockAdvance \/ WsRtdsOnMessage \/ EngineReads

SpecFeed == InitFeed /\ [][NextFeed]_vars

\* C40: in the 15-minute engine process the engine's reads come from the
\* state the started client updates: whenever that client holds a latest
\* BTC value, a price at the asked timestamp or a 60-second move, the
\* engine's get_latest_btc_usd, get_btc_at_timestamp and get_btc_move_60s
\* return a value too.
C40_EngineReadsStartedClient ==
  IsSome(engine_read) =>
    LET r == Val(engine_read)
    IN  /\ IsSome(r.fed.btc_spot) => IsSome(r.btc_spot)
        /\ IsSome(r.fed.strike_price) => IsSome(r.strike_price)
        /\ IsSome(r.fed.move) => IsSome(r.move)

============================================================================
